---- MODULE Spec2Model ----
(***************************************************************************)
(* Call-automation voice bridge: the retrieval pipeline (ragService.ts),   *)
(* the data access layer and conversation context store (dbService.ts),    *)
(* the call session manager (app.ts) and the audio streaming bridge        *)
(* (azureOpenAiService.ts).                                                *)
(***************************************************************************)
EXTENDS Integers, Sequences, FiniteSets, TLC

(***************************************************************************)
(* Bounds of the model.                                                    *)
(***************************************************************************)
MaxRuns == 1
MaxDbCalls == 3
MaxInsertions == 11
MaxSessions == 2
MaxDeliveries == 2
MaxEvents == 4
MaxRows == 1
MaxPoolErrors == 1
MaxFrames == 2
MaxPoolCalls == 2
MaxSignals == 2
MaxQueryLen == 5
MaxParams == 2
MaxDuplexEvents == 3
MaxDuplexFrames == 2

(***************************************************************************)
(* Strings are sequences of one-character strings, so that toLowerCase,    *)
(* includes and the entity regular expressions are computed, not assumed.  *)
(***************************************************************************)
UpperChars == <<"A", "B", "C", "D", "E", "F", "G", "H", "I", "J", "K", "L", "M", "N", "O", "P", "Q", "R", "S", "T", "U", "V", "W", "X", "Y", "Z">>
LowerChars == <<"a", "b", "c", "d", "e", "f", "g", "h", "i", "j", "k", "l", "m", "n", "o", "p", "q", "r", "s", "t", "u", "v", "w", "x", "y", "z">>
DigitChars == {"0", "1", "2", "3", "4", "5", "6", "7", "8", "9"}
WsChars == {" ", "\t", "\n"}

Range(s) == {s[i] : i \in DOMAIN s}

ToLowerChar(c) ==
    IF \E i \in DOMAIN UpperChars : UpperChars[i] = c
    THEN LowerChars[CHOOSE i \in DOMAIN UpperChars : UpperChars[i] = c]
    ELSE c

\* String.prototype.toLowerCase
toLowerCase(s) == [i \in DOMAIN s |-> ToLowerChar(s[i])]

\* String.prototype.includes
includes(s, kw) ==
    \E i \in 0..(Len(s) - Len(kw)) : SubSeq(s, i + 1, i + Len(kw)) = kw

IsWs(c) == c \in WsChars
IsAlnum(c) == c \in Range(UpperChars) \cup Range(LowerChars) \cup DigitChars

\* String.prototype.trim
RECURSIVE trim(_)
trim(s) ==
    IF s = <<>> THEN s
    ELSE IF IsWs(s[1]) THEN trim(Tail(s))
    ELSE IF IsWs(s[Len(s)]) THEN trim(SubSeq(s, 1, Len(s) - 1))
    ELSE s

K_ciment == <<"c", "i", "m", "e", "n", "t">>
K_article == <<"a", "r", "t", "i", "c", "l", "e">>
K_produit == <<"p", "r", "o", "d", "u", "i", "t">>
K_prix == <<"p", "r", "i", "x">>
K_client == <<"c", "l", "i", "e", "n", "t">>
K_customer == <<"c", "u", "s", "t", "o", "m", "e", "r">>
K_facture == <<"f", "a", "c", "t", "u", "r", "e">>
K_invoice == <<"i", "n", "v", "o", "i", "c", "e">>
K_payment == <<"p", "a", "y", "m", "e", "n", "t">>
K_region == <<"r", "e", "g", "i", "o", "n">>
K_zone == <<"z", "o", "n", "e">>

ProductKeywords == {K_ciment, K_article, K_produit, K_prix}
ClientKeywords == {K_client, K_customer}
InvoiceKeywords == {K_facture, K_invoice, K_payment}
RegionKeywords == {K_region, K_zone}
FallbackKeywords == ProductKeywords \cup ClientKeywords \cup InvoiceKeywords \cup RegionKeywords

(***************************************************************************)
(* The utterances handed to processQuery.                                  *)
(***************************************************************************)
Q_Prix == <<"q", "u", "e", "l", " ", "e", "s", "t", " ", "l", "e", " ", "p", "r", "i", "x", " ", "d", "u", " ", "c", "i", "m", "e", "n", "t", " ", "C", "P", "J", "4", "5", "?">>
Q_Facture == <<"f", "a", "c", "t", "u", "r", "e", " ", "F", "-", "2", "0", "2", "4", "-", "0", "0", "1">>
Q_Client == <<"C", "L", "I", "E", "N", "T", " ", "D", "u", "p", "o", "n", "t">>
Q_Zone == <<"m", "a", " ", "z", "o", "n", "e">>
Q_Bonjour == <<"B", "o", "n", "j", "o", "u", "r">>
Q_Merci == <<"m", "e", "r", "c", "i", " ", "p", "o", "u", "r", " ", "l", "e", " ", "p", "r", "i", " ", "x">>

Queries == {Q_Prix, Q_Facture, Q_Client, Q_Zone, Q_Bonjour, Q_Merci}

(***************************************************************************)
(* Entity extraction: query.match(/(?:k1|k2|..)\s+([class]+)/i), leftmost  *)
(* match, greedy quantifiers with backtracking, then capture.trim().       *)
(***************************************************************************)
InClass(c, wsInClass) == IsAlnum(c) \/ (wsInClass /\ IsWs(c)) \/ (~wsInClass /\ c = "-")

\* end of the maximal run of characters satisfying the class, starting at i
RECURSIVE ClassRunEnd(_, _, _)
ClassRunEnd(s, i, wsInClass) ==
    IF i + 1 <= Len(s) /\ InClass(s[i + 1], wsInClass)
    THEN ClassRunEnd(s, i + 1, wsInClass)
    ELSE i

\* end of the maximal run of whitespace starting at i
RECURSIVE WsRunEnd(_, _)
WsRunEnd(s, i) ==
    IF i + 1 <= Len(s) /\ IsWs(s[i + 1]) THEN WsRunEnd(s, i + 1) ELSE i

KeywordAt(s, i, kw) ==
    /\ i + Len(kw) - 1 <= Len(s)
    /\ toLowerCase(SubSeq(s, i, i + Len(kw) - 1)) = kw

\* first position of the capture group when keyword kw matches at i, 0 if
\* the pattern does not match there
CaptureStart(s, i, kw, wsInClass) ==
    LET p == i + Len(kw)
    IN  IF ~KeywordAt(s, i, kw) \/ p > Len(s) \/ ~IsWs(s[p]) THEN 0
        ELSE LET w == WsRunEnd(s, p) + 1
             IN  IF w <= Len(s) /\ InClass(s[w], FALSE) THEN w
                 ELSE IF wsInClass /\ w - 1 >= p + 1 THEN w - 1
                 ELSE 0

MatchPositions(s, kws, wsInClass) ==
    {i \in 1..Len(s) : \E k \in DOMAIN kws : CaptureStart(s, i, kws[k], wsInClass) # 0}

\* match(...)[1].trim(), or the empty string when match() returns null
\* (undefined and "" are both falsy where the name is used)
ExtractName(s, kws, wsInClass) ==
    LET pos == MatchPositions(s, kws, wsInClass)
    IN  IF pos = {} THEN <<>>
        ELSE LET i == CHOOSE x \in pos : \A y \in pos : x <= y
                 k == CHOOSE x \in DOMAIN kws :
                        /\ CaptureStart(s, i, kws[x], wsInClass) # 0
                        /\ \A y \in DOMAIN kws :
                              CaptureStart(s, i, kws[y], wsInClass) # 0 => x <= y
                 b == CaptureStart(s, i, kws[k], wsInClass)
             IN  trim(SubSeq(s, b, ClassRunEnd(s, b, wsInClass)))

\* variant: the last branch answers region
Intent_RegionByDefault(query) ==
    LET n == toLowerCase(query)
    IN  IF \E k \in ProductKeywords : includes(n, k) THEN "product"
        ELSE IF \E k \in ClientKeywords : includes(n, k) THEN "client"
        ELSE IF \E k \in InvoiceKeywords : includes(n, k) THEN "invoice"
        ELSE "region"

\* the branch of processQueryWithPatternMatching taken for a query
Intent(query) ==
    LET n == toLowerCase(query)
    IN  IF \E k \in ProductKeywords : includes(n, k) THEN "product"
        ELSE IF \E k \in ClientKeywords : includes(n, k) THEN "client"
        ELSE IF \E k \in InvoiceKeywords : includes(n, k) THEN "invoice"
        ELSE IF \E k \in RegionKeywords : includes(n, k) THEN "region"
        ELSE "none"

EntityName(query) ==
    CASE Intent(query) = "product" -> ExtractName(query, <<K_produit, K_article, K_ciment>>, TRUE)
      [] Intent(query) = "client" -> ExtractName(query, <<K_client>>, TRUE)
      [] Intent(query) = "invoice" -> ExtractName(query, <<K_facture>>, FALSE)
      [] Intent(query) = "region" -> ExtractName(query, <<K_region>>, TRUE)
      [] OTHER -> <<>>

(***************************************************************************)
(* Program constants.                                                      *)
(***************************************************************************)
maxRetries == 3
ContextCapacity == 10
RecentTurns == 3
BackoffBaseMs == 1000

\* callers of queryDatabase: the retrieval pipeline is its only caller
Callers == {"rag", "direct"}

VARIABLES
    aiConfigured,         \* AZURE_OPENAI_SERVICE_KEY / _ENDPOINT are set
    pq,                   \* the processQuery execution in flight
    runs,                 \* number of pipeline executions started
    conversationContext,  \* dbService.ts: const conversationContext
    clock,                \* logical clock behind new Date().toISOString()
    pool,                 \* dbService.ts: let pool (0 is null)
    openPools,            \* pools connected and not closed
    handlerPools,         \* pools carrying the pool.on('error') handler
    poolErrors,           \* number of pool error events delivered
    qd,                   \* queryDatabase activation of each caller
    inserted,             \* history of every turn passed to push()
    lastRead,             \* last read of the store and the history length then
    dbCalls,              \* number of direct queryDatabase calls made
    incoming,             \* incoming-call request of each call: handler position
    callState,            \* each call at the telephony platform
    activeConnections,    \* app.ts: the Map, as its entries in insertion order
    disconnects,          \* CallDisconnected callbacks handled for each call
    http,                 \* the last response one of the two webhooks has produced
    removed,              \* for each call, the CallDisconnected callback that deleted its record (0: none)
    sock,                 \* the media WebSocket of each call: readyState, frames written
    conn,                 \* wss.on('connection') handler of each socket: position and timers
    ws,                   \* azureOpenAiService.ts: let ws (0 is undefined)
    realtimeStreaming,    \* azureOpenAiService.ts: let realtimeStreaming (0 is undefined)
    loop,                 \* handleRealtimeMessages activation started by each connection
    aiQueue,              \* events each AI session has emitted and no loop has taken
    aiHistory,            \* every event each AI session has emitted
    aiSent,               \* messages handed to each AI session's client
    emitted,              \* number of AI events emitted
    inQueryProcessing,    \* azureOpenAiService.ts: let inQueryProcessing
    currentUserQuery,     \* azureOpenAiService.ts: let currentUserQuery
    inbound,              \* frames each media socket has received and what became of them
    proc,                 \* the process: running or exited, and its shutdown in progress
    fix,                  \* a statement handed to fixSqlSyntax and what it returned
    req                   \* a query with its params and the inputs bound on its request

vars == <<aiConfigured, pq, runs, conversationContext, clock, pool, openPools,
          handlerPools, poolErrors, qd, inserted, lastRead, dbCalls,
          incoming, callState, activeConnections, disconnects, removed, http,
          sock, conn, ws, realtimeStreaming, loop, aiQueue, aiHistory, aiSent,
          emitted, inQueryProcessing, currentUserQuery, inbound, proc, fix, req>>

dbVars == <<pool, openPools, handlerPools, poolErrors, qd>>
ctxVars == <<conversationContext, clock, inserted, lastRead>>
pipeVars == <<aiConfigured, pq, runs>>
\* the variables outside the pipeline, the store and the data access layer
callVars == <<incoming, callState, activeConnections, disconnects, removed, http>>
socketVars == <<sock, conn, ws, realtimeStreaming>>
\* the variables of the inbound audio path, the process and the rewrite
extVars == <<inbound, proc, fix, req>>
coreVars == <<pipeVars, dbVars, ctxVars, dbCalls, extVars>>
bridgeVars == <<loop, aiQueue, aiHistory, aiSent, emitted, inQueryProcessing, currentUserQuery>>
restVars == <<dbCalls, callVars, socketVars, bridgeVars, extVars>>

(***************************************************************************)
(* Errors, answers and completions of asynchronous calls.                  *)
(***************************************************************************)
Err(code, number) == [code |-> code, number |-> number, message |-> code]
NoError == [code |-> "", number |-> 0, message |-> ""]

\* errors the mssql driver reports from connect() and request.query();
\* number 0 stands for an error object without a number property
DbErrors ==
    { Err("ESOCKET", 0), Err("ETIMEOUT", 0), Err("ECONNRESET", 0),
      Err("EREQUEST", 10928), Err("EREQUEST", 10929), Err("EREQUEST", 40613),
      Err("EREQUEST", 208), Err("ELOGIN", 18456) }

\* the transient class as the retry policy documents it: socket reset,
\* timeout, and the server numbers for overload and failover
ListedTransient(err) ==
    \/ err.code = "ESOCKET"
    \/ err.code = "ETIMEOUT"
    \/ err.code = "ECONNRESET"
    \/ err.number = 10928
    \/ err.number = 10929
    \/ err.number = 40613

\* variant: ECONNRESET is not recognised as a connection error
IsTransient_NoConnReset(err) ==
    \/ err.code \in {"ESOCKET", "ETIMEOUT"}
    \/ (err.number # 0 /\ err.number \in {10928, 10929, 40613})

\* variant: every numbered server error is retried
IsTransient_AnyNumber(err) ==
    \/ err.code \in {"ESOCKET", "ETIMEOUT", "ECONNRESET"}
    \/ err.number # 0

\* the condition of the backoff branch in queryDatabase's catch
IsTransient(err) ==
    \/ err.code \in {"ESOCKET", "ETIMEOUT", "ECONNRESET"}
    \/ (err.number # 0 /\ err.number \in {10928, 10929, 40613})

Ctx(text, n, detail) == [text |-> text, n |-> n, detail |-> detail]
Answer(context, source) == [context |-> context, source |-> source]
NoAnswer == Answer(Ctx("", 0, ""), "")

Return(answer) == [kind |-> "return", answer |-> answer, error |-> NoError]
Throw(err) == [kind |-> "throw", answer |-> NoAnswer, error |-> err]
Pending == [kind |-> "pending", answer |-> NoAnswer, error |-> NoError]

NoInfoContext == Ctx("No specific database information found for this query.", 0, "")
ApologyContext == Ctx("I encountered an issue while searching for information. Please try rephrasing your question.", 0, "")

\* variant: a catch clause that lets the exception through
CatchClause_Rethrows(completion) == FALSE

\* catch (error) { ... }: a JavaScript catch clause takes every exception
\* thrown in its try block
CatchClause(completion) == completion.kind = "throw"

(***************************************************************************)
(* Conversation context store.                                             *)
(***************************************************************************)
toUpperCaseWord(w) ==
    CASE w = "select" -> "SELECT"
      [] w = "update" -> "UPDATE"
      [] w = "insert" -> "INSERT"
      [] w = "delete" -> "DELETE"
      [] w = "with" -> "WITH"
      [] OTHER -> w

toLowerCaseWord(w) ==
    CASE w = "SELECT" -> "select"
      [] w = "UPDATE" -> "update"
      [] w = "INSERT" -> "insert"
      [] w = "DELETE" -> "delete"
      [] w = "WITH" -> "with"
      [] OTHER -> w

\* a query result: a recordset of n rows, or a result object whose
\* rowsAffected is n
Recordset(n) == [kind |-> "recordset", n |-> n]
Affected(n) == [kind |-> "affected", n |-> n]

\* the entry built by updateConversationContext
ConversationEntry(query, queryType, result, naturalLanguageQuery, now) ==
    LET base == [timestamp |-> now, query |-> query, queryType |-> queryType,
                 action |-> toLowerCaseWord(queryType),
                 details |-> [n |-> 0, text |-> ""],
                 result |-> result,
                 naturalLanguageQuery |-> naturalLanguageQuery]
    IN  IF queryType = "SELECT"
        THEN [base EXCEPT !.action = "retrieved",
                          !.details = [n |-> IF result.kind = "recordset" THEN result.n ELSE 0,
                                       text |-> "records"]]
        ELSE IF queryType \in {"INSERT", "UPDATE", "DELETE"}
        THEN [base EXCEPT !.action = toLowerCaseWord(queryType) \o "d",
                          !.details = [n |-> IF result.kind = "affected" THEN result.n ELSE 0,
                                       text |-> "records"]]
        ELSE base

\* variant: the history is trimmed one turn too late
Trimmed_OffByOne(store) ==
    IF Len(store) > ContextCapacity + 1 THEN Tail(store) ELSE store

\* if (conversationContext.length > 10) conversationContext.shift()
Trimmed(store) ==
    IF Len(store) > ContextCapacity THEN Tail(store) ELSE store

\* conversationContext.push(entry) followed by the trim
Pushed(store, entry) == Trimmed(Append(store, entry))

\* Array.prototype.slice(-n)
SliceLast(store, n) ==
    SubSeq(store, (IF Len(store) - n > 0 THEN Len(store) - n ELSE 0) + 1, Len(store))

(***************************************************************************)
(* Data access layer: getConnectionPool and queryDatabase.                 *)
(***************************************************************************)
IdleCall ==
    [pc |-> "idle", text |-> <<>>, params |-> <<>>, retries |-> 0,
     lastError |-> NoError, conn |-> 0, closing |-> 0, closed |-> 0,
     result |-> Recordset(0),
     attempts |-> 0, transientOnly |-> TRUE, fatalSeen |-> FALSE,
     lastFailure |-> NoError]

\* a pool object not in use anywhere
FreshPool ==
    CHOOSE p \in 1..(Cardinality(openPools) + 2) :
        /\ p \notin openPools \cup {pool}
        /\ \A q \in 1..(p - 1) : q \in openPools \cup {pool}

\* one iteration of the while loop starts: getConnectionPool() returns the
\* shared pool at once when it exists, otherwise it awaits connect()
BeginAttempt(call, sharedPool) ==
    IF sharedPool # 0
    THEN [call EXCEPT !.pc = "querying", !.conn = sharedPool, !.attempts = call.attempts + 1]
    ELSE [call EXCEPT !.pc = "connecting", !.conn = 0, !.attempts = call.attempts + 1]

\* while (retries < maxRetries) ... throw lastError
NextIteration(call, sharedPool) ==
    IF call.retries < maxRetries
    THEN BeginAttempt(call, sharedPool)
    ELSE [call EXCEPT !.pc = "thrown"]

\* queryDatabase(query, params) is called
StartQuery(text, params, sharedPool) ==
    NextIteration([IdleCall EXCEPT !.text = text, !.params = params], sharedPool)

\* 1000 * Math.pow(2, retries - 1)
BackoffDelay(retries) == BackoffBaseMs * (2 ^ (retries - 1))

\* catch (err) of queryDatabase: lastError = err; retries++; then the
\* backoff wait for a connection error, break otherwise
CatchAttempt(call, err) ==
    LET c1 == [call EXCEPT !.lastError = err, !.retries = call.retries + 1,
                           !.conn = 0, !.closed = 0, !.lastFailure = err,
                           !.transientOnly = call.transientOnly /\ ListedTransient(err),
                           !.fatalSeen = call.fatalSeen \/ ~ListedTransient(err)]
    IN  IF IsTransient(err)
        THEN [c1 EXCEPT !.pc = "backoff"]
        ELSE [c1 EXCEPT !.pc = "thrown"]

\* pool = await new sql.ConnectionPool(sqlConfig).connect() succeeds, the
\* error handler is registered and the attempt goes on to request.query
QD_ConnectOk(c) ==
    /\ qd[c].pc = "connecting"
    /\ LET p == FreshPool
       IN  /\ pool' = p
           /\ openPools' = openPools \cup {p}
           /\ handlerPools' = handlerPools \cup {p}
           /\ qd' = [qd EXCEPT ![c] = [@ EXCEPT !.pc = "querying", !.conn = p, !.closed = 0]]
    /\ UNCHANGED <<restVars, aiConfigured, pq, runs, poolErrors, ctxVars>>

\* connect() rejects: getConnectionPool rethrows into queryDatabase's catch
QD_ConnectFail(c, err) ==
    /\ qd[c].pc = "connecting"
    /\ qd' = [qd EXCEPT ![c] = CatchAttempt(@, err)]
    /\ UNCHANGED <<restVars, aiConfigured, pq, runs, pool, openPools, handlerPools, poolErrors, ctxVars>>

\* the result the store gives for a statement
QueryResults(text) ==
    IF text # <<>> /\ toUpperCaseWord(text[1]) = "SELECT"
    THEN {Recordset(n) : n \in 0..MaxRows}
    ELSE {Affected(n) : n \in 0..MaxRows}

\* request.query(query) resolves: return result.recordset || result
QD_QueryOk(c, result) ==
    /\ qd[c].pc = "querying"
    /\ qd[c].conn \in openPools
    /\ result \in QueryResults(qd[c].text)
    /\ qd' = [qd EXCEPT ![c] = [@ EXCEPT !.pc = "returned", !.result = result, !.conn = 0,
                                         !.closed = 0]]
    /\ UNCHANGED <<restVars, aiConfigured, pq, runs, pool, openPools, handlerPools, poolErrors, ctxVars>>

\* request.query(query) rejects
QD_QueryFail(c, err) ==
    /\ qd[c].pc = "querying"
    /\ qd' = [qd EXCEPT ![c] = CatchAttempt(@, err)]
    /\ UNCHANGED <<restVars, aiConfigured, pq, runs, pool, openPools, handlerPools, poolErrors, ctxVars>>

\* the backoff timer fires: if (pool) await pool.close(), else loop again
QD_BackoffElapsed(c) ==
    /\ qd[c].pc = "backoff"
    /\ qd' = [qd EXCEPT ![c] =
                IF pool # 0
                THEN [@ EXCEPT !.pc = "closing", !.closing = pool]
                ELSE NextIteration(@, pool)]
    /\ UNCHANGED <<restVars, aiConfigured, pq, runs, pool, openPools, handlerPools, poolErrors, ctxVars>>

\* variant: the handle keeps naming the pool that was closed
ResetPool_Keeps(sharedPool) == sharedPool

\* pool = null after the close
ResetPool(sharedPool) == 0

\* pool.close() settles; a rejection (the pool was already gone) is logged
\* and treated as the resolution is: pool = null; loop again.  closed
\* names the pool this call has just closed while the attempt that
\* follows is connecting.
QD_CloseSettled(c) ==
    /\ qd[c].pc = "closing"
    /\ openPools' = openPools \ {qd[c].closing}
    /\ handlerPools' = handlerPools \ {qd[c].closing}
    /\ pool' = ResetPool(pool)
    /\ qd' = [qd EXCEPT ![c] =
                NextIteration([@ EXCEPT !.closing = 0,
                                        !.closed = IF qd[c].retries < maxRetries
                                                   THEN qd[c].closing ELSE 0],
                              ResetPool(pool))]
    /\ UNCHANGED <<restVars, aiConfigured, pq, runs, poolErrors, ctxVars>>

\* pool.on('error', ...): pool = null
PoolErrorEvent(p) ==
    /\ p \in handlerPools \cap openPools
    /\ poolErrors < MaxPoolErrors
    /\ poolErrors' = poolErrors + 1
    /\ pool' = 0
    /\ UNCHANGED <<restVars, aiConfigured, pq, runs, openPools, handlerPools, qd, ctxVars>>

(***************************************************************************)
(* Retrieval pipeline: processQuery, processNaturalLanguageQuery and       *)
(* processQueryWithPatternMatching.                                        *)
(***************************************************************************)
IdlePq ==
    [pc |-> "idle", entry |-> "", query |-> <<>>, sql |-> <<>>, queryType |-> "",
     result |-> Recordset(0), completion |-> Pending, failedStep |-> "",
     fallback |-> FALSE]

\* statements the translation service returns (after cleanSqlQuery and
\* fixSqlSyntax), as the tokens that split(/\s+/) yields
SqlOutputs ==
    { <<"SELECT", "*", "FROM", "clients">>,
      <<"select", "Designation", "from", "ArticleCiments">>,
      <<"UPDATE", "clients", "SET", "IsBlocked", "=", "1">>,
      <<>> }

\* failures of a chat completion request: HTTP status and whether the
\* message mentions the model
AiErrors ==
    { [status |-> 429, model |-> FALSE], [status |-> 400, model |-> TRUE],
      [status |-> 401, model |-> FALSE], [status |-> 404, model |-> FALSE],
      [status |-> 500, model |-> FALSE] }

Summaries == {"summary", ""}

\* sql.trim().split(/\s+/)[0].toUpperCase()
QueryTypeOf(sql) == IF sql = <<>> THEN "" ELSE toUpperCaseWord(sql[1])

\* the Error that nlToSql's catch block throws
NlToSqlError(aiErr) ==
    [code |-> "", number |-> 0, message |->
        CASE aiErr.status = 429 -> "Azure OpenAI rate limit exceeded. Please try again later."
          [] aiErr.status = 400 /\ aiErr.model -> "Model compatibility error: Please check AZURE_OPENAI_DEPLOYMENT_MODEL_NAME2 environment variable."
          [] aiErr.status \in {401, 403} -> "Authentication error with Azure OpenAI. Please check your credentials."
          [] aiErr.status = 404 -> "Azure OpenAI resource not found. Verify endpoint and deployment."
          [] OTHER -> "Failed to convert natural language to SQL"]

MissingConfigError ==
    [code |-> "", number |-> 0,
     message |-> "Failed to convert natural language to SQL: Missing Azure OpenAI configuration. Check environment variables."]

\* what formatResultsAsNaturalLanguage returns from its catch block
DegradedSummary(aiErr, queryType, result) ==
    IF aiErr.status = 429
    THEN Ctx("Found results for your query. (Rate limit reached, detailed summary unavailable)",
             IF result.kind = "recordset" THEN result.n ELSE 0, "")
    ELSE IF result.kind = "recordset"
    THEN Ctx("Found results for your query.", result.n, "")
    ELSE IF queryType \in {"INSERT", "UPDATE", "DELETE"}
    THEN Ctx("Operation complete. records affected.", result.n, "")
    ELSE Ctx("Query completed, but couldn't generate a summary of the results.", 0, "")

\* the catch block of processNaturalLanguageQuery turns every failure of
\* the primary path into an answer
NaturalLanguageCompletion(raw) ==
    IF CatchClause(raw)
    THEN Return(Answer(Ctx("Je n'ai pas pu recuperer les informations demandees.", 0, raw.error.message), "Error"))
    ELSE raw

\* the outer catch block of processQuery
ProcessQueryCompletion(entry, c) ==
    IF entry = "processQuery" /\ CatchClause(c)
    THEN Return(Answer(ApologyContext, "error"))
    ELSE c

Finish(p, c) == [p EXCEPT !.pc = "done", !.completion = ProcessQueryCompletion(p.entry, c)]

\* query text and parameters built by getProductInfo, getClientInfo,
\* getInvoiceInfo and getRegionInfo
PatternQuery(intent, name) ==
    CASE intent = "product" ->
            <<"SELECT", "*", "FROM", "ArticleCiments">>
            \o (IF name # <<>> THEN <<"WHERE", "Designation", "LIKE", "@productName">> ELSE <<>>)
      [] intent = "client" ->
            <<"SELECT", "*", "FROM", "clients">>
            \o (IF name # <<>> THEN <<"WHERE", "name", "LIKE", "@clientName">> ELSE <<>>)
      [] intent = "invoice" ->
            <<"SELECT", "f.id,", "f.NumerFacture,", "f.MontantFacture,", "f.DelaiDePaiement,",
              "f.DateFacturation,", "f.DateEcheance,", "f.clientId,", "c.name", "as", "clientName",
              "FROM", "factures", "f", "LEFT", "JOIN", "clients", "c", "ON", "f.clientId", "=", "c.id">>
            \o (IF name # <<>> THEN <<"WHERE", "f.NumerFacture", "=", "@invoiceNumber">> ELSE <<>>)
      [] OTHER ->
            <<"SELECT", "*", "FROM", "Region">>
            \o (IF name # <<>> THEN <<"WHERE", "Region_Libelle", "LIKE", "@regionName">> ELSE <<>>)

PatternParams(intent, name) ==
    IF name = <<>> THEN <<>>
    ELSE IF intent = "invoice" THEN <<name>>
    ELSE << <<"%">> \o name \o <<"%">> >>

\* formatProductResponse, formatClientResponse, formatInvoiceResponse and
\* formatRegionResponse
FormatResponse(intent, result) ==
    CASE intent = "product" ->
            Answer(IF result.n = 0
                   THEN Ctx("Aucun produit trouve correspondant a cette recherche.", 0, "")
                   ELSE Ctx("Voici les informations sur les produits ciments disponibles:", result.n, ""),
                   "ArticleCiments")
      [] intent = "client" ->
            Answer(IF result.n = 0
                   THEN Ctx("Aucun client trouve correspondant a cette recherche.", 0, "")
                   ELSE Ctx("Voici les informations sur les clients:", result.n, ""),
                   "clients")
      [] intent = "invoice" ->
            Answer(IF result.n = 0
                   THEN Ctx("Aucune facture trouvee correspondant a cette recherche.", 0, "")
                   ELSE Ctx("Voici les informations sur les factures:", result.n, ""),
                   "factures")
      [] OTHER ->
            Answer(IF result.n = 0
                   THEN Ctx("Aucune region trouvee correspondant a cette recherche.", 0, "")
                   ELSE Ctx("Voici les informations sur les regions:", result.n, ""),
                   "Region")

\* the Error thrown by the catch block of getProductInfo and its siblings
PatternError(intent, err) ==
    [code |-> "", number |-> 0, message |->
        CASE intent = "product" -> "Failed to retrieve product information"
          [] intent = "client" -> "Failed to retrieve client information"
          [] intent = "invoice" -> "Failed to retrieve invoice information"
          [] OTHER -> "Failed to retrieve region information"]

\* processQueryWithPatternMatching up to its first await; yields the new
\* pipeline state and the queryDatabase activation it starts
PatternMatching(p, sharedPool) ==
    LET intent == Intent(p.query)
        name == EntityName(p.query)
        p1 == [p EXCEPT !.fallback = TRUE]
    IN  IF intent = "none"
        THEN [pq |-> Finish(p1, Return(Answer(NoInfoContext, "none"))), qd |-> IdleCall]
        ELSE [pq |-> [p1 EXCEPT !.pc = "pm_db"],
              qd |-> StartQuery(PatternQuery(intent, name), PatternParams(intent, name), sharedPool)]

\* processQuery once processNaturalLanguageQuery has settled: return its
\* answer, or fall back to pattern matching when it threw
AfterPrimary(p, raw, sharedPool) ==
    LET c == NaturalLanguageCompletion(raw)
    IN  IF CatchClause(c)
        THEN PatternMatching(p, sharedPool)
        ELSE [pq |-> Finish(p, c), qd |-> IdleCall]

\* variant: the call of updateConversationContext is left out
RecordTurn_Skipped(query, queryType, result, naturalLanguageQuery) ==
    UNCHANGED ctxVars

\* updateConversationContext: the store, the clock and the history after it
RecordTurn(query, queryType, result, naturalLanguageQuery) ==
    LET e == ConversationEntry(query, queryType, result, naturalLanguageQuery, clock + 1)
    IN  /\ conversationContext' = Pushed(conversationContext, e)
        /\ inserted' = Append(inserted, e)
        /\ clock' = clock + 1
        /\ UNCHANGED lastRead

\* processQuery(query) is called; nlToSql checks the configuration, reads
\* the last three turns and awaits the translation
PQ_Start(q) ==
    /\ pq.pc = "idle"
    /\ runs < MaxRuns
    /\ runs' = runs + 1
    /\ LET p == [IdlePq EXCEPT !.entry = "processQuery", !.query = q]
       IN  IF aiConfigured
           THEN /\ pq' = [p EXCEPT !.pc = "nlToSql"]
                /\ lastRead' = [kind |-> "recent", at |-> Len(inserted),
                                turns |-> SliceLast(conversationContext, RecentTurns)]
                /\ UNCHANGED qd
           ELSE LET r == AfterPrimary([p EXCEPT !.failedStep = "nlToSql"],
                                      Throw(MissingConfigError), pool)
                IN  /\ pq' = r.pq
                    /\ qd' = [qd EXCEPT !["rag"] = r.qd]
                    /\ UNCHANGED lastRead
    /\ UNCHANGED <<restVars, aiConfigured, conversationContext, clock, inserted, pool,
                   openPools, handlerPools, poolErrors>>

\* the translation arrives; the statement is classified and executed
NL_TranslateOk(sql) ==
    /\ pq.pc = "nlToSql"
    /\ sql \in SqlOutputs
    /\ pq' = [pq EXCEPT !.pc = "exec", !.sql = sql, !.queryType = QueryTypeOf(sql)]
    /\ qd' = [qd EXCEPT !["rag"] = StartQuery(sql, <<>>, pool)]
    /\ UNCHANGED <<restVars, aiConfigured, runs, pool, openPools, handlerPools, poolErrors, ctxVars>>

\* the translation request fails
NL_TranslateFail(aiErr) ==
    /\ pq.pc = "nlToSql"
    /\ aiErr \in AiErrors
    /\ LET r == AfterPrimary([pq EXCEPT !.failedStep = "nlToSql"],
                             Throw(NlToSqlError(aiErr)), pool)
       IN  /\ pq' = r.pq
           /\ qd' = [qd EXCEPT !["rag"] = r.qd]
    /\ UNCHANGED <<restVars, aiConfigured, runs, pool, openPools, handlerPools, poolErrors, ctxVars>>

\* the awaited queryDatabase call settles, in processNaturalLanguageQuery
\* or in one of the get...Info functions
PQ_QuerySettled ==
    /\ pq.pc \in {"exec", "pm_db"}
    /\ qd["rag"].pc \in {"returned", "thrown"}
    /\ LET call == qd["rag"]
           intent == Intent(pq.query)
       IN  CASE pq.pc = "exec" /\ call.pc = "returned" ->
                  /\ RecordTurn(pq.sql, pq.queryType, call.result, pq.query)
                  /\ pq' = [pq EXCEPT !.pc = "format", !.result = call.result]
                  /\ qd' = [qd EXCEPT !["rag"] = IdleCall]
             [] pq.pc = "exec" /\ call.pc = "thrown" ->
                  LET r == AfterPrimary([pq EXCEPT !.failedStep = "queryDatabase"],
                                        Throw(call.lastError), pool)
                  IN  /\ pq' = r.pq
                      /\ qd' = [qd EXCEPT !["rag"] = r.qd]
                      /\ UNCHANGED ctxVars
             [] pq.pc = "pm_db" /\ call.pc = "returned" ->
                  /\ RecordTurn(call.text, "SELECT", call.result, <<>>)
                  /\ pq' = Finish([pq EXCEPT !.result = call.result],
                                  Return(FormatResponse(intent, call.result)))
                  /\ qd' = [qd EXCEPT !["rag"] = IdleCall]
             [] OTHER ->
                  /\ pq' = Finish(pq, Throw(PatternError(intent, call.lastError)))
                  /\ qd' = [qd EXCEPT !["rag"] = IdleCall]
                  /\ UNCHANGED ctxVars
    /\ UNCHANGED <<restVars, aiConfigured, runs, pool, openPools, handlerPools, poolErrors>>

\* the summary arrives
NL_FormatOk(summary) ==
    /\ pq.pc = "format"
    /\ summary \in Summaries
    /\ LET r == AfterPrimary(pq, Return(Answer(Ctx(summary, 0, ""), "SQL Database")), pool)
       IN  /\ pq' = r.pq
           /\ qd' = [qd EXCEPT !["rag"] = r.qd]
    /\ UNCHANGED <<restVars, aiConfigured, runs, pool, openPools, handlerPools, poolErrors, ctxVars>>

\* the summarization request fails and a basic summary is returned
NL_FormatFail(aiErr) ==
    /\ pq.pc = "format"
    /\ aiErr \in AiErrors
    /\ LET r == AfterPrimary([pq EXCEPT !.failedStep = "format"],
                             Return(Answer(DegradedSummary(aiErr, pq.queryType, pq.result), "SQL Database")),
                             pool)
       IN  /\ pq' = r.pq
           /\ qd' = [qd EXCEPT !["rag"] = r.qd]
    /\ UNCHANGED <<restVars, aiConfigured, runs, pool, openPools, handlerPools, poolErrors, ctxVars>>

\* the caller takes the answer; the pipeline is ready for the next utterance
PQ_Reset ==
    /\ pq.pc = "done"
    /\ pq' = IdlePq
    /\ UNCHANGED <<restVars, aiConfigured, runs, dbVars, ctxVars>>

\* processQueryWithPatternMatching(query) applied to a query on its own
PM_Start(q) ==
    /\ pq.pc = "idle"
    /\ runs < MaxRuns
    /\ runs' = runs + 1
    /\ LET r == PatternMatching([IdlePq EXCEPT !.entry = "processQueryWithPatternMatching",
                                               !.query = q], pool)
       IN  /\ pq' = r.pq
           /\ qd' = [qd EXCEPT !["rag"] = r.qd]
    /\ UNCHANGED <<restVars, aiConfigured, pool, openPools, handlerPools, poolErrors, ctxVars>>

(***************************************************************************)
(* Call sessions: app.ts, the incoming-call and callback handlers and the  *)
(* activeConnections registry.                                             *)
(***************************************************************************)
Sessions == 1..MaxSessions

\* contextId = uuidv4(): one fresh identifier for each answered call
ContextId(k) == k

\* answerCallResult.callConnectionProperties.callConnectionId
CallConnectionId(k) == MaxSessions + k

CallbackTypes == {"Microsoft.Communication.CallConnected",
                  "Microsoft.Communication.MediaStreamingStarted",
                  "Microsoft.Communication.MediaStreamingStopped",
                  "Microsoft.Communication.MediaStreamingFailed",
                  "Microsoft.Communication.ParticipantsUpdated"}

\* res.status(status).json(...): reply names the field the body carries;
\* status 0 is a request that never gets a response
Response(endpoint, status, reply) == [endpoint |-> endpoint, status |-> status, reply |-> reply]
NoResponse == Response("none", 0, "none")

\* a request body: whether it parses as JSON, whether it is an array, its
\* length, and the data field of its first element ("missing": no data,
\* "empty": data without the fields the handler reads, "complete")
Body(parses, isArray, length, data) ==
    [parses |-> parses, isArray |-> isArray, length |-> length, data |-> data]

CompleteBody == Body(TRUE, TRUE, 1, "complete")

Bodies ==
    { Body(FALSE, FALSE, 0, "missing"),
      Body(TRUE, FALSE, 0, "missing"),
      Body(TRUE, TRUE, 0, "missing"),
      Body(TRUE, TRUE, 1, "missing"),
      Body(TRUE, TRUE, 1, "empty"),
      CompleteBody }

IncomingEventTypes == {"Microsoft.EventGrid.SubscriptionValidationEvent",
                       "Microsoft.Communication.IncomingCall"}

\* express.json() and the error middleware registered after it
ParseFailure(endpoint) == Response(endpoint, 500, "error")

\* /api/incomingCall up to the answer request: the response of a request
\* that ends before it, NoResponse for one that goes on to answerCall
IncomingCallReply(body, eventType) ==
    IF ~body.parses THEN ParseFailure("incomingCall")
    ELSE IF ~body.isArray \/ body.length = 0
    THEN Response("incomingCall", 400, "error")
    ELSE IF eventType = "Microsoft.EventGrid.SubscriptionValidationEvent"
    THEN IF body.data = "missing"
         THEN Response("incomingCall", 500, "error")
         ELSE Response("incomingCall", 200, "validationResponse")
    ELSE IF body.data # "complete"
    THEN Response("incomingCall", 500, "error")
    ELSE NoResponse

\* /api/callbacks/:contextId up to the switch: eventData.callConnectionId is
\* read before the response is sent, and the catch sends none
CallbackReply(body) ==
    IF ~body.parses THEN ParseFailure("callbacks")
    ELSE IF ~body.isArray \/ body.length = 0
    THEN Response("callbacks", 400, "error")
    ELSE IF body.data = "missing"
    THEN Response("callbacks", 0, "none")
    ELSE Response("callbacks", 200, "received")

\* an incoming-call request that ends without an answer request
IC_Rejected(body, eventType) ==
    /\ IncomingCallReply(body, eventType) # NoResponse
    /\ http' = IncomingCallReply(body, eventType)
    /\ UNCHANGED <<coreVars, incoming, callState, activeConnections, disconnects, removed,
                   socketVars, bridgeVars>>

\* a callback request whose body is not a complete event: nothing but the
\* response, if any, comes of it
CB_Malformed(k, body) ==
    /\ body # CompleteBody
    /\ body.data # "empty"
    /\ http' = CallbackReply(body)
    /\ UNCHANGED <<coreVars, incoming, callState, activeConnections, disconnects, removed,
                   socketVars, bridgeVars>>

\* the HTTP handler of /api/incomingCall up to await acsClient.answerCall
IC_Receive(k) ==
    /\ incoming[k] = "none"
    /\ callState[k] = "ringing"
    /\ incoming' = [incoming EXCEPT ![k] = "answering"]
    /\ UNCHANGED <<coreVars, callState, activeConnections, disconnects, removed, http,
                   socketVars, bridgeVars>>

\* the platform carries out the answer request: the call is established and
\* its events may be delivered from now on
Platform_Answer(k) ==
    /\ incoming[k] = "answering"
    /\ callState[k] = "ringing"
    /\ callState' = [callState EXCEPT ![k] = "established"]
    /\ UNCHANGED <<coreVars, incoming, activeConnections, disconnects, removed, http,
                   socketVars, bridgeVars>>

\* the caller or the platform ends the call
Platform_Hangup(k) ==
    /\ callState[k] = "established"
    /\ callState' = [callState EXCEPT ![k] = "ended"]
    /\ UNCHANGED <<coreVars, incoming, activeConnections, disconnects, removed, http,
                   socketVars, bridgeVars>>

\* answerCall resolved: activeConnections.set(contextId, {callConnectionId, ws: null})
IC_Answered(k) ==
    /\ incoming[k] = "answering"
    /\ callState[k] \in {"established", "ended"}
    /\ incoming' = [incoming EXCEPT ![k] = "answered"]
    /\ activeConnections' = Append(activeConnections,
            [id |-> ContextId(k), callConnectionId |-> CallConnectionId(k), ws |-> 0])
    /\ http' = Response("incomingCall", 200, "success")
    /\ UNCHANGED <<coreVars, callState, disconnects, removed, socketVars, bridgeVars>>

\* answerCall rejected: the catch answers 500 and nothing is recorded
IC_AnswerFailed(k) ==
    /\ incoming[k] = "answering"
    /\ callState[k] = "ringing"
    /\ incoming' = [incoming EXCEPT ![k] = "failed"]
    /\ http' = Response("incomingCall", 500, "error")
    /\ UNCHANGED <<coreVars, callState, activeConnections, disconnects, removed,
                   socketVars, bridgeVars>>

\* the callback handler for the event types that only log: the response is
\* sent, then the event is logged
CB_Logged(k, type) ==
    /\ callState[k] \in {"established", "ended"}
    /\ http' = Response("callbacks", 200, "received")
    /\ UNCHANGED <<coreVars, incoming, callState, activeConnections, disconnects, removed,
                   socketVars, bridgeVars>>

\* variant: every entry matches
Matches_Any(connection, callConnectionId, contextId) == TRUE

\* connection.callConnectionId === callConnectionId || id === contextId
Matches(connection, callConnectionId, contextId) ==
    \/ connection.callConnectionId = callConnectionId
    \/ connection.id = contextId

\* the first entry of the Map, in iteration order, the loop stops at (0: none)
FirstMatch(entries, callConnectionId, contextId) ==
    LET hits == {i \in 1..Len(entries) : Matches(entries[i], callConnectionId, contextId)}
    IN  IF hits = {} THEN 0 ELSE CHOOSE i \in hits : \A j \in hits : i <= j

\* activeConnections.delete(id)
Deleted(entries, i) ==
    [j \in 1..(Len(entries) - 1) |-> IF j < i THEN entries[j] ELSE entries[j + 1]]

\* connection.ws.close(1000, 'Call disconnected') when the entry holds an open socket
ClosedByDisconnect(socks, connection) ==
    IF connection.ws # 0 /\ socks[connection.ws].readyState = "open"
    THEN [socks EXCEPT ![connection.ws] = [@ EXCEPT !.readyState = "closing", !.code = 1000]]
    ELSE socks

\* the callback handler for CallDisconnected: handleCallDisconnected
CB_CallDisconnected(k) ==
    /\ callState[k] = "ended"
    /\ disconnects[k] < MaxDeliveries
    /\ disconnects' = [disconnects EXCEPT ![k] = @ + 1]
    /\ http' = Response("callbacks", 200, "received")
    /\ LET i == FirstMatch(activeConnections, CallConnectionId(k), ContextId(k))
       IN  IF i = 0
           THEN UNCHANGED <<activeConnections, sock, removed>>
           ELSE /\ sock' = ClosedByDisconnect(sock, activeConnections[i])
                /\ activeConnections' = Deleted(activeConnections, i)
                /\ removed' = [removed EXCEPT ![activeConnections[i].id] = disconnects[k] + 1]
    /\ UNCHANGED <<coreVars, incoming, callState, conn, ws, realtimeStreaming,
                   bridgeVars>>

(***************************************************************************)
(* Media sockets: app.ts, the WebSocket server's connection handler.       *)
(***************************************************************************)
NoSocket == [readyState |-> "none", log |-> <<>>, code |-> 0]
NoConn == [pc |-> "none", timeout |-> "none", ping |-> FALSE]
NoLoop == [pc |-> "none", session |-> 0]

\* a 'close' event reaches the handler registered after the setup, if any
CloseEvent(c) == IF c.pc = "ready" THEN [c EXCEPT !.ping = FALSE] ELSE c

\* wss.on('connection'): both timers are set, initWebsocket stores the
\* socket, startRealtime makes a new client and awaits the configuration send
WS_Connection(k) ==
    /\ sock[k].readyState = "none"
    /\ sock' = [sock EXCEPT ![k] = [@ EXCEPT !.readyState = "open"]]
    /\ conn' = [conn EXCEPT ![k] = [pc |-> "configuring", timeout |-> "armed", ping |-> TRUE]]
    /\ ws' = k
    /\ realtimeStreaming' = k
    /\ aiSent' = [aiSent EXCEPT ![k] = Append(@, "session.update")]
    /\ UNCHANGED <<coreVars, callVars, loop, aiQueue, aiHistory, emitted, inQueryProcessing,
                   currentUserQuery>>

\* variant: the timer is left running
clearTimeout_Keeps(timer) == timer

\* clearTimeout(connectionTimeout)
clearTimeout(timer) == IF timer = "armed" THEN "cleared" ELSE timer

\* the configuration send settles (a rejection is caught and logged): the
\* message loop is scheduled with setImmediate, the timeout is cleared and the
\* message, close and error handlers are registered
WS_ConfigSettled(k) ==
    /\ conn[k].pc = "configuring"
    /\ loop' = [loop EXCEPT ![k] = [NoLoop EXCEPT !.pc = "scheduled"]]
    /\ conn' = [conn EXCEPT ![k] =
            [@ EXCEPT !.pc = "ready", !.timeout = clearTimeout(@)]]
    /\ UNCHANGED <<coreVars, callVars, sock, ws, realtimeStreaming, aiQueue, aiHistory, aiSent,
                   emitted, inQueryProcessing, currentUserQuery>>

\* the 5 s connection timeout fires before the setup has finished:
\* ws.close(1013, 'Connection timeout')
WS_Timeout(k) ==
    /\ conn[k].timeout = "armed"
    /\ conn' = [conn EXCEPT ![k] = [@ EXCEPT !.timeout = "fired"]]
    /\ sock' = IF sock[k].readyState = "open"
               THEN [sock EXCEPT ![k] = [@ EXCEPT !.readyState = "closing", !.code = 1013]]
               ELSE sock
    /\ UNCHANGED <<coreVars, callVars, ws, realtimeStreaming, bridgeVars>>

\* the 30 s interval fires: ws.ping() on an open socket; the pong handler
\* does nothing and no answer is awaited
WS_Ping(k) ==
    /\ conn[k].ping
    /\ UNCHANGED vars

\* the peer closes the socket or completes a close the server began
WS_Closed(k) ==
    /\ sock[k].readyState \in {"open", "closing"}
    /\ sock' = [sock EXCEPT ![k] = [@ EXCEPT !.readyState = "closed",
                                             !.code = IF @ = 0 THEN 1005 ELSE @]]
    /\ conn' = [conn EXCEPT ![k] = CloseEvent(@)]
    /\ UNCHANGED <<coreVars, callVars, ws, realtimeStreaming, bridgeVars>>

(***************************************************************************)
(* Inbound audio: the socket's 'message' handler, processWebsocketMessage- *)
(* Async of mediaStreamingHandler.ts and sendAudioToExternalAi.            *)
(***************************************************************************)
\* handed lists the frames in the order realtimeStreaming.send was called
NoFrames == [received |-> 0, inflight |-> {}, forwarded |-> {}, dropped |-> {}, handed |-> <<>>]

\* audioData.data of the packets a socket delivers: "" carries no audio
AudioPayloads == {"", "UklGRg=="}

\* processWebsocketMessageAsync(packetData): the payload of an audio packet
\* goes to sendAudioToExternalAi, which sends it only when it is not empty
Forwards(data) == data # ""

\* variant: a failed forward closes the socket
OnForwardError_Closes(socks, k) ==
    [socks EXCEPT ![k] = [@ EXCEPT !.readyState = "closing", !.code = 1011]]

\* catch (e) { console.log(e) }, and the handler's own catch, which only logs
\* ("Don't close connection on message processing error")
OnForwardError(socks, k) == socks

\* ws.on('message'): a packet arrives on socket k; if the socket is open its
\* audio is handed to realtimeStreaming.send and the send is awaited
WS_Message(k, data) ==
    /\ conn[k].pc = "ready"
    /\ sock[k].readyState \in {"open", "closing"}
    /\ inbound[k].received < MaxFrames
    /\ inbound' = [inbound EXCEPT ![k] =
            [@ EXCEPT !.received = @ + 1,
                      !.inflight = IF sock[k].readyState = "open" /\ Forwards(data)
                                   THEN @ \cup {[seq |-> inbound[k].received + 1,
                                                 target |-> realtimeStreaming]}
                                   ELSE @,
                      !.handed = IF sock[k].readyState = "open" /\ Forwards(data)
                                 THEN Append(@, [seq |-> inbound[k].received + 1,
                                                 target |-> realtimeStreaming])
                                 ELSE @]]
    /\ UNCHANGED <<pipeVars, dbVars, ctxVars, dbCalls, callVars, socketVars, bridgeVars, proc, fix, req>>

\* the awaited send of frame f settles: resolved, or rejected and caught
WS_MessageSettled(k, f, ok) ==
    /\ f \in inbound[k].inflight
    /\ IF ok
       THEN /\ aiSent' = [aiSent EXCEPT ![f.target] = Append(@, "input_audio_buffer.append")]
            /\ inbound' = [inbound EXCEPT ![k] =
                    [@ EXCEPT !.inflight = @ \ {f}, !.forwarded = @ \cup {f.seq}]]
            /\ sock' = sock
       ELSE /\ aiSent' = aiSent
            /\ inbound' = [inbound EXCEPT ![k] =
                    [@ EXCEPT !.inflight = @ \ {f}, !.dropped = @ \cup {f.seq}]]
            /\ sock' = OnForwardError(sock, k)
    /\ UNCHANGED <<pipeVars, dbVars, ctxVars, dbCalls, callVars, conn, ws, realtimeStreaming,
                   loop, aiQueue, aiHistory, emitted, inQueryProcessing, currentUserQuery, proc, fix, req>>

(***************************************************************************)
(* The dialect rewrite: fixSqlSyntax of dbService.ts. A statement is the   *)
(* sequence of its tokens; a run of white space is one token, " " when it  *)
(* holds no line break and "\n" when it does.                              *)
(***************************************************************************)
IsWsToken(t) == t \in {" ", "\n"}

\* the i flag of limitPattern, on the words the pattern names
SqlUpper(w) ==
    CASE w = "select" -> "SELECT"
      [] w = "from" -> "FROM"
      [] w = "limit" -> "LIMIT"
      [] OTHER -> w

\* \d+
IsNumber(t) == t \in {"1", "10", "20"}

\* .*? matches the tokens from..to: any characters but a line break
NoBreak(toks, from, to) == \A p \in from..to : toks[p] # "\n"

Least(S) == CHOOSE x \in S : \A y \in S : x <= y

\* /SELECT\s+(.*?)\s+FROM\s+(.*?)\s+LIMIT\s+(\d+)/i: the leftmost SELECT
\* from which the pattern matches, with the shortest first group and then
\* the shortest second group; i is the SELECT, $1 is i+2..j, $2 is j+4..m
\* and $3 is the token m+4
LimitMatch(toks) ==
    LET L == Len(toks)
        At(p) == IF p \in 1..L THEN toks[p] ELSE ""
        Ms(j) == {m \in (j + 4)..L :
                    /\ NoBreak(toks, j + 4, m)
                    /\ IsWsToken(At(m + 1))
                    /\ SqlUpper(At(m + 2)) = "LIMIT"
                    /\ IsWsToken(At(m + 3))
                    /\ IsNumber(At(m + 4))}
        Js(i) == {j \in (i + 2)..L :
                    /\ NoBreak(toks, i + 2, j)
                    /\ IsWsToken(At(j + 1))
                    /\ SqlUpper(At(j + 2)) = "FROM"
                    /\ IsWsToken(At(j + 3))
                    /\ Ms(j) # {}}
        Is == {i \in 1..L :
                    /\ SqlUpper(toks[i]) = "SELECT"
                    /\ IsWsToken(At(i + 1))
                    /\ Js(i) # {}}
    IN  IF Is = {}
        THEN [found |-> FALSE, i |-> 0, j |-> 0, m |-> 0]
        ELSE LET i == Least(Is)
                 j == Least(Js(i))
             IN  [found |-> TRUE, i |-> i, j |-> j, m |-> Least(Ms(j))]

\* replace(limitPattern, 'SELECT TOP $3 $1 FROM $2'): the first match only
ReplaceLimit(toks, at) ==
    SubSeq(toks, 1, at.i - 1)
        \o <<"SELECT", " ", "TOP", " ", toks[at.m + 4], " ">>
        \o SubSeq(toks, at.i + 2, at.j)
        \o <<" ", "FROM", " ">>
        \o SubSeq(toks, at.j + 4, at.m)
        \o SubSeq(toks, at.m + 5, Len(toks))

\* the backquote character
Backquote == "backquote"

\* the global replace of a backquoted name (one character or more between
\* two backquotes) by the name in square brackets, from token p on
RECURSIVE ReplaceBackticks(_, _)
ReplaceBackticks(toks, p) ==
    IF p > Len(toks) THEN toks
    ELSE IF toks[p] # Backquote THEN ReplaceBackticks(toks, p + 1)
    ELSE LET closers == {r \in (p + 1)..Len(toks) : toks[r] = Backquote}
         IN  IF closers = {} THEN toks
             ELSE IF Least(closers) = p + 1 THEN ReplaceBackticks(toks, p + 1)
             ELSE ReplaceBackticks(
                      [toks EXCEPT ![p] = "[", ![Least(closers)] = "]"],
                      Least(closers) + 1)

\* fixSqlSyntax(sqlQuery): LIMIT to TOP, then backquotes to brackets
fixSqlSyntax(sqlQuery) ==
    LET at == LimitMatch(sqlQuery)
        fixedQuery == IF at.found THEN ReplaceLimit(sqlQuery, at) ELSE sqlQuery
    IN  ReplaceBackticks(fixedQuery, 1)

\* the statements handed to fixSqlSyntax: SELECT statements with a LIMIT
\* clause, of the outer query or of a subquery of its WHERE clause
ColumnLists == { <<"*">>, <<Backquote, "name", Backquote>>, <<"name", ",", " ", "price">> }

LimitShapes ==
    { q \in [distinct : BOOLEAN, cols : ColumnLists, where : BOOLEAN, orderBy : BOOLEAN,
             breaks : BOOLEAN, offset : BOOLEAN, sub : BOOLEAN, lower : BOOLEAN,
             n : {"1", "10"}] :
        (q.sub => q.where) /\ (q.offset => ~q.sub) }

PlainShape ==
    [distinct |-> FALSE, cols |-> <<"*">>, where |-> FALSE, orderBy |-> FALSE,
     breaks |-> FALSE, offset |-> FALSE, sub |-> FALSE, lower |-> FALSE, n |-> "1"]

Keyword(q, w) ==
    IF q.lower
    THEN CASE w = "SELECT" -> "select" [] w = "FROM" -> "from" [] w = "LIMIT" -> "limit"
    ELSE w

\* the text of a statement of shape q
Statement(q) ==
    LET sep == IF q.breaks THEN "\n" ELSE " "
        limit == <<Keyword(q, "LIMIT"), " ", q.n>>
        order == IF q.orderBy THEN <<"ORDER", " ", "BY", " ", "Id", sep>> ELSE <<>>
    IN  <<Keyword(q, "SELECT"), " ">>
        \o (IF q.distinct THEN <<"DISTINCT", " ">> ELSE <<>>)
        \o q.cols
        \o <<sep, Keyword(q, "FROM"), " ", "factures">>
        \o (IF q.sub
            THEN <<sep, "WHERE", " ", "ClientId", " ", "IN", " ", "(",
                   Keyword(q, "SELECT"), " ", "Id", " ", Keyword(q, "FROM"), " ", "clients", " ">>
                 \o order \o limit \o <<")">>
            ELSE (IF q.where THEN <<sep, "WHERE", " ", "Montant", " ", ">", " ", "0">> ELSE <<>>)
                 \o <<sep>> \o order \o limit
                 \o (IF q.offset THEN <<" ", "OFFSET", " ", "20">> ELSE <<>>))

IdleFix == [input |-> PlainShape, output |-> <<>>, done |-> FALSE]

\* sqlQuery = fixSqlSyntax(sqlQuery)
Sql_Fix ==
    /\ ~fix.done
    /\ fix' = [fix EXCEPT !.output = fixSqlSyntax(Statement(fix.input)), !.done = TRUE]
    /\ UNCHANGED <<pipeVars, dbVars, ctxVars, dbCalls, callVars, socketVars, bridgeVars,
                   inbound, proc, req>>

(***************************************************************************)
(* Parameter binding of queryDatabase: the inputs set on the request       *)
(* before request.query.                                                   *)
(***************************************************************************)
\* \w of the placeholder expression
IsWordChar(c) == IsAlnum(c) \/ c = "_"

\* the end of the run of word characters that starts at i
RECURSIVE WordRunEnd(_, _)
WordRunEnd(s, i) ==
    IF i < Len(s) /\ IsWordChar(s[i + 1]) THEN WordRunEnd(s, i + 1) ELSE i

\* variant: a name that occurs again is reported once
RECURSIVE MatchPlaceholders_Distinct(_, _, _)
MatchPlaceholders_Distinct(s, i, found) ==
    IF i >= Len(s) THEN found
    ELSE IF s[i] = "@" /\ IsWordChar(s[i + 1])
         THEN LET e == WordRunEnd(s, i + 1)
                  name == SubSeq(s, i, e)
              IN  MatchPlaceholders_Distinct(s, e + 1,
                      IF \E k \in DOMAIN found : found[k] = name
                      THEN found ELSE Append(found, name))
         ELSE MatchPlaceholders_Distinct(s, i + 1, found)

\* query.match(/@\w+/g) || []: the matches from position i on, left to
\* right, each taking the longest run of word characters, the next search
\* starting where the match ended
RECURSIVE MatchPlaceholders(_, _, _)
MatchPlaceholders(s, i, found) ==
    IF i >= Len(s) THEN found
    ELSE IF s[i] = "@" /\ IsWordChar(s[i + 1])
         THEN LET e == WordRunEnd(s, i + 1)
              IN  MatchPlaceholders(s, e + 1, Append(found, SubSeq(s, i, e)))
         ELSE MatchPlaceholders(s, i + 1, found)

\* String.prototype.substring(from)
substring(s, from) == SubSeq(s, from + 1, Len(s))

\* paramNames.forEach((paramName, index) => { if (index < params.length)
\*     request.input(paramName.substring(1), params[index]) })
RECURSIVE forEachInput(_, _, _, _)
forEachInput(paramNames, params, index, inputs) ==
    IF index >= Len(paramNames) THEN inputs
    ELSE forEachInput(paramNames, params, index + 1,
             IF index < Len(params)
             THEN Append(inputs, [name |-> substring(paramNames[index + 1], 1),
                                  value |-> params[index + 1]])
             ELSE inputs)

\* the request.input calls of one attempt, in order
BoundInputs(query, params) ==
    IF Len(params) > 0 /\ includes(query, <<"@">>)
    THEN forEachInput(MatchPlaceholders(query, 1, <<>>), params, 0, <<>>)
    ELSE <<>>

IdleRequest == [query |-> <<>>, params |-> <<>>, inputs |-> <<>>, done |-> FALSE]

\* const request = pool.request() and the binding that follows it
Request_Bind ==
    /\ ~req.done
    /\ req' = [req EXCEPT !.inputs = BoundInputs(req.query, req.params), !.done = TRUE]
    /\ UNCHANGED <<pipeVars, dbVars, ctxVars, dbCalls, callVars, socketVars, bridgeVars,
                   inbound, proc, fix>>

(***************************************************************************)
(* The process and its shutdown: setupGracefulShutdown of app.ts and the   *)
(* SIGINT handler of dbService.ts.                                         *)
(***************************************************************************)
\* after startServer(): the server listens and every handler is registered;
\* cleanup is the pool the SIGINT handler of dbService.ts is closing (0: none)
Started ==
    [status |-> "running", code |-> 0, shuttingDown |-> FALSE, server |-> "listening",
     forceTimer |-> FALSE, cleanup |-> 0, signals |-> 0]

Signals == {"SIGTERM", "SIGINT", "uncaughtException"}

Running == proc.status = "running"

\* process.exit(code)
Exit(p, code) == [p EXCEPT !.status = "exited", !.code = code]

\* wss.clients.forEach(client => client.close(1001, 'Server shutting down'))
ClosedByShutdown(socks) ==
    [k \in Sessions |->
        IF socks[k].readyState = "open"
        THEN [socks[k] EXCEPT !.readyState = "closing", !.code = 1001]
        ELSE socks[k]]

\* variant: the 10 s timer is not armed
shutdown_NoTimer(p) ==
    IF p.shuttingDown
    THEN p
    ELSE [p EXCEPT !.shuttingDown = TRUE, !.server = "closing"]

\* const shutdown = async () => {...}: once only, it closes the sockets,
\* calls server.close and arms the 10 s timer
shutdown(p) ==
    IF p.shuttingDown
    THEN p
    ELSE [p EXCEPT !.shuttingDown = TRUE, !.server = "closing", !.forceTimer = TRUE]

\* process.on('SIGINT') of dbService.ts up to its await: closeConnectionPool
\* starts pool.close() when there is a pool
SigintCleanup(p, sharedPool) ==
    IF sharedPool # 0 THEN [p EXCEPT !.cleanup = sharedPool] ELSE p

\* a signal or an uncaught exception is delivered: every listener registered
\* for it runs to its first await; when dbService's listener finds no pool
\* its process.exit(0) follows at once
Signal(sig) ==
    /\ Running
    /\ proc.signals < MaxSignals
    /\ LET counted == [proc EXCEPT !.signals = @ + 1]
           cleaned == IF sig = "SIGINT" THEN SigintCleanup(counted, pool) ELSE counted
           down == shutdown(cleaned)
       IN  /\ proc' = IF sig = "SIGINT" /\ pool = 0 THEN Exit(down, 0) ELSE down
           /\ sock' = IF proc.shuttingDown THEN sock ELSE ClosedByShutdown(sock)
    /\ UNCHANGED <<pipeVars, dbVars, ctxVars, dbCalls, callVars, conn, ws, realtimeStreaming,
                   bridgeVars, inbound, fix, req>>

\* closeConnectionPool: pool.close() settles, finally pool = null, and the
\* SIGINT handler goes on to process.exit(0)
Cleanup_Settled ==
    /\ Running
    /\ proc.cleanup # 0
    /\ openPools' = openPools \ {proc.cleanup}
    /\ handlerPools' = handlerPools \ {proc.cleanup}
    /\ pool' = 0
    /\ proc' = Exit([proc EXCEPT !.cleanup = 0], 0)
    /\ UNCHANGED <<pipeVars, ctxVars, dbCalls, poolErrors, qd, callVars, socketVars,
                   bridgeVars, inbound, fix, req>>

\* server.close(callback): every connection has ended, process.exit(0)
Server_Closed ==
    /\ Running
    /\ proc.server = "closing"
    /\ \A k \in Sessions : sock[k].readyState \notin {"open", "closing"}
    /\ proc' = Exit([proc EXCEPT !.server = "closed"], 0)
    /\ UNCHANGED <<pipeVars, dbVars, ctxVars, dbCalls, callVars, socketVars, bridgeVars, inbound, fix, req>>

\* the 10 s timer fires: process.exit(1)
Force_Exit ==
    /\ Running
    /\ proc.forceTimer
    /\ proc' = Exit(proc, 1)
    /\ UNCHANGED <<pipeVars, dbVars, ctxVars, dbCalls, callVars, socketVars, bridgeVars, inbound, fix, req>>

(***************************************************************************)
(* The AI bridge: azureOpenAiService.ts.                                   *)
(***************************************************************************)
Event(type, seq, transcript) == [type |-> type, seq |-> seq, transcript |-> transcript]

Transcripts == {<<>>, Q_Bonjour}

\* what a session may emit next: session.created opens every session
NextEvents(s) ==
    LET seq == Len(aiHistory[s]) + 1
    IN  IF seq = 1
        THEN {Event("session.created", seq, <<>>)}
        ELSE {Event(type, seq, <<>>) : type \in {"response.audio.delta",
                                                 "input_audio_buffer.speech_started",
                                                 "response.done"}}
             \cup {Event("conversation.item.input_audio_transcription.completed", seq, t) :
                     t \in Transcripts}

\* the AI service emits an event on a session
AI_Emit(s, event) ==
    /\ conn[s].pc # "none"
    /\ emitted < MaxEvents
    /\ event \in NextEvents(s)
    /\ emitted' = emitted + 1
    /\ aiQueue' = [aiQueue EXCEPT ![s] = Append(@, event)]
    /\ aiHistory' = [aiHistory EXCEPT ![s] = Append(@, event.type)]
    /\ UNCHANGED <<coreVars, callVars, socketVars, loop, aiSent, inQueryProcessing,
                   currentUserQuery>>

AudioFrame(session, seq) == [kind |-> "AudioData", session |-> session, seq |-> seq]
StopFrame(session, seq) == [kind |-> "StopAudio", session |-> session, seq |-> seq]

\* variant: the frame is written whatever the socket's state
sendMessage_Unguarded(socks, target, data) ==
    IF target # 0
    THEN [socks EXCEPT ![target] = [@ EXCEPT !.log = Append(@, data)]]
    ELSE socks

\* sendMessage(data): ws.send(data) if ws.readyState === WebSocket.OPEN
sendMessage(socks, target, data) ==
    IF target # 0 /\ socks[target].readyState = "open"
    THEN [socks EXCEPT ![target] = [@ EXCEPT !.log = Append(@, data)]]
    ELSE socks

\* variant: no frame is written
stopAudio_NoSend(socks, target, session, seq) == socks

\* stopAudio(): the stop-audio control frame goes out before it returns
stopAudio(socks, target, session, seq) == sendMessage(socks, target, StopFrame(session, seq))

\* receiveAudioForOutbound(message.delta)
receiveAudioForOutbound(socks, target, session, seq) ==
    sendMessage(socks, target, AudioFrame(session, seq))

\* variant: the in-flight flag is not consulted
MayProcess_IgnoresFlag(flag, transcript) == transcript # <<>>

\* if (!inQueryProcessing && currentUserQuery)
MayProcess(flag, transcript) == ~flag /\ transcript # <<>>

\* the setImmediate callback: handleRealtimeMessages() starts iterating the
\* messages of the client realtimeStreaming names at that moment
Loop_Start(k) ==
    /\ loop[k].pc = "scheduled"
    /\ loop' = [loop EXCEPT ![k] = [@ EXCEPT !.pc = "waiting", !.session = realtimeStreaming]]
    /\ UNCHANGED <<coreVars, callVars, socketVars, aiQueue, aiHistory, aiSent, emitted,
                   inQueryProcessing, currentUserQuery>>

\* variant: the iterator yields the newest pending message
Dequeue_Newest(queue) ==
    [message |-> queue[Len(queue)], rest |-> SubSeq(queue, 1, Len(queue) - 1)]

\* the iterator of messages() yields the oldest pending message
Dequeue(queue) == [message |-> Head(queue), rest |-> Tail(queue)]

\* one iteration of for await (const message of realtimeStreaming.messages()),
\* up to its first await that leaves the process
Loop_Handle(k) ==
    /\ loop[k].pc = "waiting"
    /\ aiQueue[loop[k].session] # <<>>
    /\ LET s == loop[k].session
           message == Dequeue(aiQueue[s]).message
       IN  /\ aiQueue' = [aiQueue EXCEPT ![s] = Dequeue(@).rest]
           /\ CASE message.type = "session.created" ->
                     /\ loop' = [loop EXCEPT ![k] = [@ EXCEPT !.pc = "greeting"]]
                     /\ aiSent' = [aiSent EXCEPT ![realtimeStreaming] = Append(@, "assistant")]
                     /\ UNCHANGED <<sock, inQueryProcessing, currentUserQuery>>
                [] message.type = "response.audio.delta" ->
                     /\ sock' = receiveAudioForOutbound(sock, ws, s, message.seq)
                     /\ UNCHANGED <<loop, aiSent, inQueryProcessing, currentUserQuery>>
                [] message.type = "input_audio_buffer.speech_started" ->
                     /\ sock' = stopAudio(sock, ws, s, message.seq)
                     /\ UNCHANGED <<loop, aiSent, inQueryProcessing, currentUserQuery>>
                [] message.type = "conversation.item.input_audio_transcription.completed" ->
                     /\ currentUserQuery' = message.transcript
                     /\ IF MayProcess(inQueryProcessing, message.transcript)
                        THEN /\ inQueryProcessing' = TRUE
                             /\ loop' = [loop EXCEPT ![k] = [@ EXCEPT !.pc = "processQuery"]]
                        ELSE UNCHANGED <<inQueryProcessing, loop>>
                     /\ UNCHANGED <<sock, aiSent>>
                [] OTHER ->
                     UNCHANGED <<sock, loop, aiSent, inQueryProcessing, currentUserQuery>>
    /\ UNCHANGED <<coreVars, callVars, conn, ws, realtimeStreaming, aiHistory, emitted>>

\* the welcome message's send settles; a rejection leaves the for await and
\* ends handleRealtimeMessages
Loop_GreetingSettled(k, ok) ==
    /\ loop[k].pc = "greeting"
    /\ loop' = [loop EXCEPT ![k] = [@ EXCEPT !.pc = IF ok THEN "waiting" ELSE "ended"]]
    /\ UNCHANGED <<coreVars, callVars, socketVars, aiQueue, aiHistory, aiSent, emitted,
                   inQueryProcessing, currentUserQuery>>

RagContexts == {Ctx("", 0, ""), NoInfoContext, ApologyContext}

\* await processQuery(currentUserQuery) returns a RagResponse: its context is
\* sent on unless it is empty or the no-information message
Loop_QueryProcessed(k, context) ==
    /\ loop[k].pc = "processQuery"
    /\ IF context.text # "" /\ context # NoInfoContext
       THEN /\ loop' = [loop EXCEPT ![k] = [@ EXCEPT !.pc = "context"]]
            /\ aiSent' = [aiSent EXCEPT ![realtimeStreaming] = Append(@, "system")]
            /\ UNCHANGED inQueryProcessing
       ELSE /\ loop' = [loop EXCEPT ![k] = [@ EXCEPT !.pc = "waiting"]]
            /\ inQueryProcessing' = FALSE
            /\ UNCHANGED aiSent
    /\ UNCHANGED <<coreVars, callVars, socketVars, aiQueue, aiHistory, emitted,
                   currentUserQuery>>

\* variant: the flag is cleared at the end of the try block only
Finally_OnSuccess(flag, ok) == IF ok THEN FALSE ELSE flag

\* finally { inQueryProcessing = false }
Finally(flag, ok) == FALSE

\* the context item's send settles; a rejection is caught; finally clears
\* inQueryProcessing
Loop_ContextSettled(k, ok) ==
    /\ loop[k].pc = "context"
    /\ loop' = [loop EXCEPT ![k] = [@ EXCEPT !.pc = "waiting"]]
    /\ inQueryProcessing' = Finally(inQueryProcessing, ok)
    /\ UNCHANGED <<coreVars, callVars, socketVars, aiQueue, aiHistory, aiSent, emitted,
                   currentUserQuery>>

(***************************************************************************)
(* Specifications.                                                         *)
(***************************************************************************)
InitProgram ==
    /\ aiConfigured \in BOOLEAN
    /\ pq = IdlePq
    /\ runs = 0
    /\ conversationContext = <<>>
    /\ clock = 0
    /\ pool = 0
    /\ openPools = {}
    /\ handlerPools = {}
    /\ poolErrors = 0
    /\ qd = [c \in Callers |-> IdleCall]
    /\ inserted = <<>>
    /\ lastRead = [kind |-> "", at |-> 0, turns |-> <<>>]
    /\ dbCalls = 0
    /\ incoming = [k \in Sessions |-> "none"]
    /\ callState = [k \in Sessions |-> "ringing"]
    /\ activeConnections = <<>>
    /\ disconnects = [k \in Sessions |-> 0]
    /\ removed = [k \in Sessions |-> 0]
    /\ http = NoResponse
    /\ sock = [k \in Sessions |-> NoSocket]
    /\ conn = [k \in Sessions |-> NoConn]
    /\ ws = 0
    /\ realtimeStreaming = 0
    /\ loop = [k \in Sessions |-> NoLoop]
    /\ aiQueue = [k \in Sessions |-> <<>>]
    /\ aiHistory = [k \in Sessions |-> <<>>]
    /\ aiSent = [k \in Sessions |-> <<>>]
    /\ emitted = 0
    /\ inQueryProcessing = FALSE
    /\ currentUserQuery = <<>>
    /\ inbound = [k \in Sessions |-> NoFrames]
    /\ proc = Started

Init == InitProgram /\ fix = IdleFix /\ req = IdleRequest

DbNext ==
    \/ \E c \in Callers : QD_ConnectOk(c)
    \/ \E c \in Callers, err \in DbErrors : QD_ConnectFail(c, err)
    \/ \E c \in Callers, result \in {Recordset(n) : n \in 0..MaxRows} \cup {Affected(n) : n \in 0..MaxRows} :
          QD_QueryOk(c, result)
    \/ \E c \in Callers, err \in DbErrors : QD_QueryFail(c, err)
    \/ \E c \in Callers : QD_BackoffElapsed(c)
    \/ \E c \in Callers : QD_CloseSettled(c)
    \/ \E p \in openPools : PoolErrorEvent(p)

Next ==
    \/ \E q \in Queries : PQ_Start(q)
    \/ \E sql \in SqlOutputs : NL_TranslateOk(sql)
    \/ \E aiErr \in AiErrors : NL_TranslateFail(aiErr)
    \/ PQ_QuerySettled
    \/ \E summary \in Summaries : NL_FormatOk(summary)
    \/ \E aiErr \in AiErrors : NL_FormatFail(aiErr)
    \/ PQ_Reset
    \/ DbNext

Spec == Init /\ [][Next]_vars

\* the pipeline together with processQueryWithPatternMatching called alone
NextFn ==
    \/ Next
    \/ \E q \in Queries : PM_Start(q)

SpecFn == Init /\ [][NextFn]_vars

(***************************************************************************)
(* queryDatabase called on its own (it is exported), call after call on    *)
(* the shared pool.                                                        *)
(***************************************************************************)
DirectQueries ==
    { [text |-> <<"SELECT", "*", "FROM", "Region">>, params |-> <<>>],
      [text |-> PatternQuery("product", <<"C", "P", "J", "4", "5">>),
       params |-> PatternParams("product", <<"C", "P", "J", "4", "5">>)],
      [text |-> <<"DELETE", "FROM", "factures">>, params |-> <<>>] }

DB_Call(c, request) ==
    /\ pq.pc = "idle"
    /\ qd[c].pc = "idle"
    /\ dbCalls < MaxDbCalls
    /\ dbCalls' = dbCalls + 1
    /\ qd' = [qd EXCEPT ![c] = StartQuery(request.text, request.params, pool)]
    /\ UNCHANGED <<pipeVars, ctxVars, callVars, socketVars, bridgeVars, extVars, pool, openPools, handlerPools, poolErrors>>

\* the caller takes the rows or the error
DB_Settle(c) ==
    /\ pq.pc = "idle"
    /\ qd[c].pc \in {"returned", "thrown"}
    /\ qd' = [qd EXCEPT ![c] = IdleCall]
    /\ UNCHANGED <<pipeVars, ctxVars, callVars, socketVars, bridgeVars, extVars, dbCalls, pool, openPools, handlerPools, poolErrors>>

\* one caller at a time, as the pipeline calls it
NextDb ==
    \/ \E request \in DirectQueries : DB_Call("rag", request)
    \/ DB_Settle("rag")
    \/ DbNext

SpecDb == Init /\ [][NextDb]_vars

\* queryDatabase called by several callers whose calls may overlap
PoolRequest == [text |-> <<"SELECT", "*", "FROM", "Region">>, params |-> <<>>]

NextPool ==
    \/ \E c \in Callers : dbCalls < MaxPoolCalls /\ DB_Call(c, PoolRequest)
    \/ \E c \in Callers : DB_Settle(c)
    \/ DbNext

SpecPool == Init /\ [][NextPool]_vars

(***************************************************************************)
(* The conversation context store driven through its exported functions.   *)
(***************************************************************************)
TurnInputs ==
    { [query |-> <<"SELECT", "*", "FROM", "clients">>, result |-> Recordset(1),
       naturalLanguageQuery |-> Q_Client],
      [query |-> <<"UPDATE", "clients", "SET", "IsBlocked", "=", "1">>, result |-> Affected(1),
       naturalLanguageQuery |-> <<>>] }

\* updateConversationContext(query, queryType, result, naturalLanguageQuery)
Ctx_Update(t) ==
    /\ pq.pc = "idle"
    /\ Len(inserted) < MaxInsertions
    /\ RecordTurn(t.query, QueryTypeOf(t.query), t.result, t.naturalLanguageQuery)
    /\ UNCHANGED <<restVars, pipeVars, dbVars>>

\* conversationContext.slice(-3), the read nlToSql makes for its prompt
Ctx_ReadRecent ==
    /\ pq.pc = "idle"
    /\ lastRead' = [kind |-> "recent", at |-> Len(inserted),
                    turns |-> SliceLast(conversationContext, RecentTurns)]
    /\ UNCHANGED <<restVars, pipeVars, dbVars, conversationContext, clock, inserted>>

\* getConversationContext(): [...conversationContext]
Ctx_ReadAll ==
    /\ pq.pc = "idle"
    /\ lastRead' = [kind |-> "all", at |-> Len(inserted), turns |-> conversationContext]
    /\ UNCHANGED <<restVars, pipeVars, dbVars, conversationContext, clock, inserted>>

NextCtx ==
    \/ \E t \in TurnInputs : Ctx_Update(t)
    \/ Ctx_ReadRecent
    \/ Ctx_ReadAll

SpecCtx == Init /\ [][NextCtx]_vars

(***************************************************************************)
(* Call sessions and their media sockets.                                  *)
(***************************************************************************)
InitCall == Init /\ aiConfigured

SocketNext ==
    \/ \E k \in Sessions : WS_Connection(k)
    \/ \E k \in Sessions : WS_ConfigSettled(k)
    \/ \E k \in Sessions : WS_Timeout(k)
    \/ \E k \in Sessions : WS_Closed(k)

NextCall ==
    \/ \E k \in Sessions : IC_Receive(k)
    \/ \E k \in Sessions : Platform_Answer(k)
    \/ \E k \in Sessions : Platform_Hangup(k)
    \/ \E k \in Sessions : IC_Answered(k)
    \/ \E k \in Sessions : IC_AnswerFailed(k)
    \/ \E k \in Sessions, type \in CallbackTypes : CB_Logged(k, type)
    \/ \E k \in Sessions : CB_CallDisconnected(k)
    \/ \E k \in Sessions : WS_Connection(k)
    \/ \E k \in Sessions : WS_Closed(k)

SpecCall == InitCall /\ [][NextCall]_vars

\* the two webhooks with every body the platform or anyone else may post
NextHttp ==
    \/ NextCall
    \/ \E body \in Bodies, eventType \in IncomingEventTypes : IC_Rejected(body, eventType)
    \/ \E k \in Sessions, body \in Bodies : CB_Malformed(k, body)

SpecHttp == InitCall /\ [][NextHttp]_vars

\* the media sockets on their own, with the connection timeout
SpecSocket == InitCall /\ [][SocketNext]_vars

\* an armed timer fires: the event loop runs every timer that is due
SpecSocketLive == SpecSocket /\ \A k \in Sessions : WF_vars(WS_Timeout(k))

\* calls whose media sockets are torn down by the transport while the
\* platform delivers no CallDisconnected event; every handler whose event
\* has arrived runs
NextTeardown ==
    \/ \E k \in Sessions : IC_Receive(k)
    \/ \E k \in Sessions : Platform_Answer(k)
    \/ \E k \in Sessions : IC_Answered(k)
    \/ \E k \in Sessions : IC_AnswerFailed(k)
    \/ \E k \in Sessions : WS_Connection(k)
    \/ \E k \in Sessions : WS_ConfigSettled(k)
    \/ \E k \in Sessions : WS_Timeout(k)
    \/ \E k \in Sessions : WS_Ping(k)
    \/ \E k \in Sessions : WS_Closed(k)

SpecTeardown == InitCall /\ [][NextTeardown]_vars /\ WF_vars(NextTeardown)

(***************************************************************************)
(* The AI bridge over the media sockets. A socket may stop being open at   *)
(* any moment here (WS_Closed), which covers the moments at which the      *)
(* connection timeout closes it; the timer itself runs in SpecSocket.      *)
(***************************************************************************)
NextBridge ==
    \/ \E s \in Sessions : \E event \in NextEvents(s) : AI_Emit(s, event)
    \/ \E k \in Sessions : Loop_Start(k)
    \/ \E k \in Sessions : Loop_Handle(k)
    \/ \E k \in Sessions, ok \in BOOLEAN : Loop_GreetingSettled(k, ok)
    \/ \E k \in Sessions, context \in RagContexts : Loop_QueryProcessed(k, context)
    \/ \E k \in Sessions, ok \in BOOLEAN : Loop_ContextSettled(k, ok)
    \/ \E k \in Sessions : WS_Connection(k)
    \/ \E k \in Sessions : WS_ConfigSettled(k)
    \/ \E k \in Sessions : WS_Closed(k)

SpecBridge == InitCall /\ [][NextBridge]_vars

\* processQuery and the send of the context item settle
SpecBridgeLive ==
    /\ SpecBridge
    /\ \A k \in Sessions :
          /\ WF_vars(\E context \in RagContexts : Loop_QueryProcessed(k, context))
          /\ WF_vars(\E ok \in BOOLEAN : Loop_ContextSettled(k, ok))

(***************************************************************************)
(* The running process with its pool and sockets, and its termination.     *)
(* Nothing runs once the process has exited, and a closing server accepts  *)
(* no connection.                                                          *)
(***************************************************************************)
NextShutdown ==
    \/ Running /\ dbCalls < MaxPoolCalls /\ DB_Call("rag", PoolRequest)
    \/ Running /\ DB_Settle("rag")
    \/ Running /\ DbNext
    \/ Running /\ proc.server = "listening" /\ \E k \in Sessions : WS_Connection(k)
    \/ Running /\ \E k \in Sessions : WS_Closed(k)
    \/ \E sig \in Signals : Signal(sig)
    \/ Cleanup_Settled
    \/ Server_Closed
    \/ Force_Exit

SpecShutdown == InitCall /\ [][NextShutdown]_vars

\* the event loop runs a timer that is due
SpecShutdownLive == SpecShutdown /\ WF_vars(Force_Exit)

(***************************************************************************)
(* fixSqlSyntax applied to each statement of LimitShapes.                  *)
(***************************************************************************)
InitSql ==
    /\ InitProgram
    /\ aiConfigured
    /\ fix \in {[IdleFix EXCEPT !.input = q] : q \in LimitShapes}
    /\ req = IdleRequest

NextSql == Sql_Fix

SpecSql == InitSql /\ [][NextSql]_vars

(***************************************************************************)
(* The binding applied to query texts and parameter lists.                 *)
(***************************************************************************)
QueryChars == {"@", "a", "b", "_", " "}
ParamValues == {"x", "y"}
BindQueries == UNION {[1..n -> QueryChars] : n \in 0..MaxQueryLen}
BindParams == UNION {[1..n -> ParamValues] : n \in 0..MaxParams}

InitBind ==
    /\ InitProgram
    /\ aiConfigured
    /\ fix = IdleFix
    /\ req \in {[IdleRequest EXCEPT !.query = q, !.params = ps] : q \in BindQueries, ps \in BindParams}

NextBind == Request_Bind

SpecBind == InitBind /\ [][NextBind]_vars

(***************************************************************************)
(* Calls with their media sockets receiving audio from the caller.         *)
(***************************************************************************)
NextInbound ==
    \/ \E k \in Sessions : IC_Receive(k)
    \/ \E k \in Sessions : Platform_Answer(k)
    \/ \E k \in Sessions : IC_Answered(k)
    \/ \E k \in Sessions : WS_Connection(k)
    \/ \E k \in Sessions : WS_ConfigSettled(k)
    \/ \E k \in Sessions : WS_Closed(k)
    \/ \E k \in Sessions, data \in AudioPayloads : WS_Message(k, data)
    \/ \E k \in Sessions : \E f \in inbound[k].inflight : \E ok \in BOOLEAN :
          WS_MessageSettled(k, f, ok)

SpecInbound == InitCall /\ [][NextInbound]_vars

(***************************************************************************)
(* Both directions of the audio bridge at once: the AI sessions emit audio *)
(* while the media sockets receive packets.                                *)
(***************************************************************************)
AudioEvents(s) ==
    {event \in NextEvents(s) : event.type \in {"session.created", "response.audio.delta"}}

\* packets received so far on all sockets
RECURSIVE ReceivedUpTo(_)
ReceivedUpTo(k) == IF k = 0 THEN 0 ELSE inbound[k].received + ReceivedUpTo(k - 1)

NextDuplex ==
    \/ \E s \in Sessions : \E event \in AudioEvents(s) :
          emitted < MaxDuplexEvents /\ AI_Emit(s, event)
    \/ \E k \in Sessions : Loop_Start(k)
    \/ \E k \in Sessions : Loop_Handle(k)
    \/ \E k \in Sessions, ok \in BOOLEAN : Loop_GreetingSettled(k, ok)
    \/ \E k \in Sessions : WS_Connection(k)
    \/ \E k \in Sessions : WS_ConfigSettled(k)
    \/ \E k \in Sessions : WS_Closed(k)
    \/ \E k \in Sessions, data \in AudioPayloads :
          ReceivedUpTo(MaxSessions) < MaxDuplexFrames /\ WS_Message(k, data)
    \/ \E k \in Sessions : \E f \in inbound[k].inflight : \E ok \in BOOLEAN :
          WS_MessageSettled(k, f, ok)

SpecDuplex == InitCall /\ [][NextDuplex]_vars

(***************************************************************************)
(* Properties of the retrieval pipeline.                                   *)
(***************************************************************************)
PqDone == pq.entry = "processQuery" /\ pq.pc = "done"

\* C1: processQuery never throws: whatever fails (translation, execution,
\* summarization, the fallback's read), a finished processQuery has returned
\* a RagResponse, and no exception is ever its completion
C1_NeverThrows ==
    pq.entry = "processQuery" =>
        /\ pq.completion.kind # "throw"
        /\ pq.pc = "done" =>
              /\ pq.completion.kind = "return"
              /\ pq.completion.answer.source # ""

C1_Witness ==
    /\ PqDone
    /\ pq.failedStep = "queryDatabase"
    /\ pq.completion.kind = "return"

\* C2: whenever a step of the primary path fails, processQuery runs the
\* keyword-matching path for the same query and returns its answer; a
\* product query then gets source ArticleCiments
C2_FallbackOnFailure ==
    (PqDone /\ pq.failedStep # "") =>
        /\ pq.fallback
        /\ Intent(pq.query) = "product" =>
              pq.completion.answer.source \in {"ArticleCiments", "error"}

\* the query contains none of the eleven fallback keywords
NoKeyword(query) ==
    \A k \in FallbackKeywords : ~includes(toLowerCase(query), k)

C4_ErrorLabel ==
    (PqDone /\ pq.failedStep \in {"nlToSql", "queryDatabase"}) =>
        pq.completion.answer.source = "error"

(***************************************************************************)
(* Properties of the data access layer.                                    *)
(***************************************************************************)
\* C5: a queryDatabase call whose every attempt failed with a transient
\* error has made exactly 3 attempts when it throws, and throws the error of
\* its last attempt; no call makes more than 3 attempts
C5_RetryBound ==
    \A c \in Callers :
        /\ qd[c].attempts <= 3
        /\ (qd[c].pc = "thrown" /\ qd[c].transientOnly) =>
              /\ qd[c].attempts = 3
              /\ qd[c].lastError = qd[c].lastFailure

C5_Witness ==
    /\ qd["rag"].pc = "thrown"
    /\ qd["rag"].transientOnly
    /\ qd["rag"].attempts = 3
    /\ qd["rag"].lastError = Err("ECONNRESET", 0)

\* C6: a non-transient failure ends the call at once: the call is in no
\* further attempt, backoff wait or pool reset, and throws that error, also
\* after earlier transient failures
C6_FatalEndsCall ==
    \A c \in Callers :
        qd[c].fatalSeen =>
            /\ qd[c].pc = "thrown"
            /\ qd[c].lastError = qd[c].lastFailure
            /\ ~ListedTransient(qd[c].lastError)

C6_Witness ==
    /\ qd["rag"].fatalSeen
    /\ qd["rag"].pc = "thrown"
    /\ qd["rag"].attempts = 2
    /\ qd["rag"].lastError = Err("EREQUEST", 208)

(***************************************************************************)
(* Properties of the conversation context store.                           *)
(***************************************************************************)
Min(a, b) == IF a < b THEN a ELSE b

\* the last n elements of a sequence
LastOf(s, n) == [i \in 1..n |-> s[Len(s) - n + i]]

\* C7: after k insertions the store holds exactly the last min(k, 10)
\* inserted turns in insertion order, and a read of the most recent n turns
\* (3 in nlToSql, all in getConversationContext) returned the last
\* min(n, count) of the turns inserted before it, most recent last
C7_StoreHoldsLastTurns ==
    /\ Len(conversationContext) <= 10
    /\ conversationContext = LastOf(inserted, Min(Len(inserted), 10))
    /\ lastRead.kind = "recent" =>
          lastRead.turns = LastOf(SubSeq(inserted, 1, lastRead.at),
                                  Min(3, Min(lastRead.at, 10)))
    /\ lastRead.kind = "all" =>
          lastRead.turns = LastOf(SubSeq(inserted, 1, lastRead.at), Min(lastRead.at, 10))

C7_Witness ==
    /\ Len(inserted) = 11
    /\ lastRead.kind = "recent"
    /\ lastRead.at = 11
    /\ Len(conversationContext) = 10
    /\ conversationContext[1] = inserted[2]

(***************************************************************************)
(* Properties of call sessions.                                            *)
(***************************************************************************)
Registered(k) == \E i \in 1..Len(activeConnections) : activeConnections[i].id = ContextId(k)

\* C8: disconnecting is idempotent: a CallDisconnected callback for a call
\* whose record was already removed changes neither the registry nor any
\* socket
C8_DisconnectIdempotent ==
    [][\A k \in Sessions :
          (CB_CallDisconnected(k) /\ removed[k] # 0) =>
              UNCHANGED <<activeConnections, sock>>]_vars

C8_Witness ==
    /\ removed[1] = 1
    /\ disconnects[1] = 2
    /\ Registered(2)
    /\ sock[2].readyState = "open"

\* C9: a CallDisconnected callback for a registered call whose media socket
\* is open closes that socket and removes the call's record
C9_DisconnectClosesSocket ==
    [][\A k \in Sessions :
          (CB_CallDisconnected(k) /\ Registered(k) /\ sock[k].readyState = "open") =>
              /\ sock'[k].readyState # "open"
              /\ ~Registered(k)']_vars

(***************************************************************************)
(* Properties of the AI bridge.                                            *)
(***************************************************************************)
\* C10: barge-in ordering: an audio frame on a call's socket that comes from
\* an audio-delta event of the call's AI session is preceded, on that socket,
\* by the stop-audio frame of every speech-started event the session emitted
\* before that delta
C10_StopBeforeLaterAudio ==
    \A k \in Sessions :
        \A j \in 1..Len(sock[k].log) :
            (sock[k].log[j].kind = "AudioData" /\ sock[k].log[j].session = k) =>
                \A i \in 1..(sock[k].log[j].seq - 1) :
                    aiHistory[k][i] = "input_audio_buffer.speech_started" =>
                        \E h \in 1..(j - 1) : sock[k].log[h] = StopFrame(k, i)

C10_Witness ==
    /\ aiHistory[1] = <<"session.created", "response.audio.delta",
                        "input_audio_buffer.speech_started", "response.audio.delta">>
    /\ sock[1].log = <<AudioFrame(1, 2), StopFrame(1, 3), AudioFrame(1, 4)>>

\* Loop k takes an event of the given type from its session's queue
Handles(k, type) ==
    /\ loop[k].pc = "waiting"
    /\ aiQueue[loop[k].session] # <<>>
    /\ Head(aiQueue[loop[k].session]).type = type
    /\ Loop_Handle(k)

\* C11: an audio-delta event is written to the audio socket the bridge holds
\* exactly when that socket is open at that moment: one audio frame is
\* appended to it and nothing else is written; when it is not open nothing is
\* written to any socket; either way the message loop goes on
C11_WriteIffOpen ==
    [][\A k \in Sessions :
          Handles(k, "response.audio.delta") =>
              /\ (sock[ws].readyState = "open") =>
                    sock' = [sock EXCEPT ![ws] = [@ EXCEPT !.log =
                        Append(@, AudioFrame(loop[k].session,
                                             Head(aiQueue[loop[k].session]).seq))]]
              /\ (sock[ws].readyState # "open") => sock' = sock
              /\ loop'[k].pc = "waiting"]_vars

C11_Witness ==
    /\ ws = 1
    /\ conn[2].pc = "none"
    /\ sock[1].readyState = "closed"
    /\ aiHistory[1] = <<"session.created", "response.audio.delta">>
    /\ aiQueue[1] = <<>>
    /\ sock[1].log = <<>>
    /\ loop[1].pc = "waiting"

\* the loops that are inside await processQuery for session s
Processing(s) == {k \in Sessions : loop[k].session = s /\ loop[k].pc = "processQuery"}

\* C13: single flight: no session ever has more than one processQuery
\* execution in progress
C13_SingleFlight ==
    \A s \in Sessions : Cardinality(Processing(s)) <= 1

C13_Witness ==
    /\ Processing(1) = {1}
    /\ aiQueue[1] # <<>>
    /\ Head(aiQueue[1]).type = "conversation.item.input_audio_transcription.completed"
    /\ Head(aiQueue[1]).transcript # <<>>

\* C19: retrieval does not stall the audio path: when an audio-delta or a
\* speech-started event is the next event of a session that has a
\* processQuery in progress, a message loop of that session is ready to take
\* it at once
C19_AudioNotStalled ==
    \A s \in Sessions :
        (/\ Processing(s) # {}
         /\ aiQueue[s] # <<>>
         /\ Head(aiQueue[s]).type \in {"response.audio.delta",
                                       "input_audio_buffer.speech_started"}) =>
            \E k \in Sessions : loop[k].session = s /\ loop[k].pc = "waiting"

\* C20: a finalized non-empty utterance of a session that has no retrieval
\* of its own in flight is handed to processQuery when its event is taken,
\* whatever another session has in flight
C20_UtteranceProcessed ==
    [][\A k \in Sessions :
          (/\ Handles(k, "conversation.item.input_audio_transcription.completed")
           /\ Head(aiQueue[loop[k].session]).transcript # <<>>
           /\ \A j \in Sessions :
                 loop[j].session = loop[k].session => loop[j].pc \notin {"processQuery", "context"}) =>
              loop'[k].pc = "processQuery"]_vars

\* C12: a failed forward of an inbound frame drops that frame only: the
\* step that settles the failure changes no socket, no handler and no
\* registry entry and sends nothing to the AI session; and a frame with audio
\* arriving on an open socket is handed to the AI session's client whatever
\* became of the frames before it
C12_FailureDropsFrameOnly ==
    [][\A k \in Sessions :
          /\ \A f \in inbound[k].inflight :
                WS_MessageSettled(k, f, FALSE) =>
                    /\ sock' = sock
                    /\ conn' = conn
                    /\ activeConnections' = activeConnections
                    /\ aiSent' = aiSent
                    /\ inbound'[k].dropped = inbound[k].dropped \cup {f.seq}
          /\ \A data \in AudioPayloads :
                (WS_Message(k, data) /\ data # "" /\ sock[k].readyState = "open") =>
                    \E f \in inbound'[k].inflight : f.seq = inbound[k].received + 1]_vars

C12_Witness ==
    /\ Registered(1)
    /\ sock[1].readyState = "open"
    /\ inbound[1].dropped = {1}
    /\ inbound[1].forwarded = {2}
    /\ Len(aiSent[1]) = 2

\* C14: every request to the callback endpoint is answered 200, whatever
\* its event kind or body shape
C14_CallbackAcknowledged ==
    http.endpoint = "callbacks" => http.status = 200

\* an array of at least one event that carries the fields the handler reads
WellFormed(body) == body.parses /\ body.isArray /\ body.length > 0 /\ body.data = "complete"

\* C15: the registry gains a record exactly in the step that completes a
\* successful answer request; a request with a malformed body is answered 400,
\* a subscription-validation event 200 with the echoed code, and neither
\* issues an answer request nor changes the registry
C15_RegistryIffAnswered ==
    [][/\ (activeConnections' # activeConnections /\ Len(activeConnections') > Len(activeConnections))
            <=> \E k \in Sessions : IC_Answered(k)
       /\ \A body \in Bodies, eventType \in IncomingEventTypes :
             IC_Rejected(body, eventType) =>
                 /\ incoming' = incoming
                 /\ activeConnections' = activeConnections
                 /\ ~WellFormed(body) => http'.status = 400
                 /\ (WellFormed(body) /\ eventType = "Microsoft.EventGrid.SubscriptionValidationEvent")
                        => http' = Response("incomingCall", 200, "validationResponse")]_vars

\* C18: one shared pool: however concurrent queryDatabase calls interleave,
\* and before any pool error event, at most one pool is open, it is the one
\* the shared handle refers to, and every call that is running its query
\* runs it on that pool
C18_OneSharedPool ==
    poolErrors = 0 =>
    /\ Cardinality(openPools) <= 1
    /\ openPools \subseteq {pool}
    /\ \A c \in Callers : qd[c].pc = "querying" => qd[c].conn = pool

\* C17: whatever signal ends the process, the shared pool has been closed
\* by the time the process has exited: no pool is open then
C17_PoolClosedBeforeExit ==
    proc.status = "exited" => openPools = {}

IsWord(t) == ~IsWsToken(t)

\* the words of a statement, white space left out, keywords in upper case
UpperWords(toks) ==
    LET words == SelectSeq(toks, IsWord)
    IN  [p \in 1..Len(words) |-> SqlUpper(words[p])]

\* T-SQL: SELECT [DISTINCT] TOP n select_list FROM, for the SELECT that
\* owned the LIMIT clause
TopClause(q) ==
    LET owned == IF q.sub THEN <<"Id">>
                 ELSE IF q.cols = <<Backquote, "name", Backquote>> THEN <<"[", "name", "]">>
                 ELSE SelectSeq(q.cols, IsWord)
    IN  <<"SELECT">>
        \o (IF q.distinct /\ ~q.sub THEN <<"DISTINCT">> ELSE <<>>)
        \o <<"TOP", q.n>> \o owned \o <<"FROM">>

\* where the SELECT that owns the LIMIT clause stands among the words
OwnerAt(q, words) ==
    IF q.sub THEN Least({p \in 1..Len(words) : words[p] = "("}) + 1 ELSE 1

\* C16: for every statement with a LIMIT n clause, fixSqlSyntax returns a
\* statement without LIMIT in which the SELECT that owned the clause reads
\* SELECT [DISTINCT] TOP n followed by the same columns, and no other TOP
C16_LimitBecomesTop ==
    fix.done =>
        LET words == UpperWords(fix.output)
            at == OwnerAt(fix.input, words)
            top == TopClause(fix.input)
        IN  /\ \A p \in 1..Len(words) : words[p] # "LIMIT"
            /\ at + Len(top) - 1 <= Len(words)
            /\ SubSeq(words, at, at + Len(top) - 1) = top
            /\ Cardinality({p \in 1..Len(words) : words[p] = "TOP"}) = 1

\* C21: every frame written to a call's audio socket comes from an event of
\* that call's own AI session
C21_FramesToOwnSocket ==
    \A k \in Sessions : \A p \in 1..Len(sock[k].log) : sock[k].log[p].session = k

\* C22: every inbound frame of a call's socket is sent to the AI session
\* started for that call, and the grounding-context item of an utterance is
\* sent to the session the utterance came from
C22_MessagesToOwnSession ==
    [][/\ \A k \in Sessions : \A f \in inbound'[k].inflight : f.target = k
       /\ \A k \in Sessions, context \in RagContexts :
             (loop[k].pc = "processQuery" /\ Loop_QueryProcessed(k, context)) =>
                 \A s \in Sessions \ {loop[k].session} : aiSent'[s] = aiSent[s]]_vars

\* C23: the reset after one caller's transient failure never closes a pool
\* under another caller: a query in flight always runs on an open pool
C23_NoPoolClosedUnderQuery ==
    \A c \in Callers : qd[c].pc = "querying" => qd[c].conn \in openPools

\* C24: once the audio socket of a registered session is closed, the
\* session's record is eventually removed from the registry, with no
\* CallDisconnected event delivered
C24_TeardownRemovesRecord ==
    \A k \in Sessions :
        (Registered(k) /\ sock[k].readyState = "closed") ~> ~Registered(k)

\* C26: the connection timeout closes a socket exactly when its setup has
\* not completed at the moment the timer fires (and the socket is still
\* open); and a socket whose setup does not complete does not stay open
C26_TimeoutIffSetupIncomplete ==
    /\ [][\A k \in Sessions :
            WS_Timeout(k) =>
                /\ (conn[k].pc = "configuring" /\ sock[k].readyState = "open") =>
                      (sock'[k].readyState = "closing" /\ sock'[k].code = 1013)
                /\ conn[k].pc # "configuring" => sock' = sock]_vars
    /\ \A k \in Sessions :
          (conn[k].pc = "configuring") ~>
              (conn[k].pc = "ready" \/ sock[k].readyState # "open")

C26_Witness ==
    /\ conn[1].pc = "configuring"
    /\ conn[1].timeout = "fired"
    /\ sock[1].readyState = "closing"
    /\ sock[1].code = 1013
    /\ conn[2].pc = "ready"
    /\ conn[2].timeout = "cleared"
    /\ sock[2].readyState = "open"

\* C25: once a CallDisconnected event of a call has been handled, the
\* registry holds no record of that call
C25_NoRecordAfterDisconnect ==
    \A k \in Sessions : disconnects[k] > 0 => ~Registered(k)

\* C27: when a call of queryDatabase starts another attempt after a
\* transient failure, the shared handle is null, the pool the handle named
\* when the backoff ended has been closed, and the attempt connects a new
\* pool instead of reusing one
C27_PoolResetBeforeRetry ==
    [][\A c \in Callers :
          (qd[c].pc \in {"backoff", "closing"} /\ qd'[c].attempts = qd[c].attempts + 1)
              => /\ pool' = 0
                 /\ qd[c].pc = "closing" => qd[c].closing \notin openPools'
                 /\ qd'[c].pc = "connecting"]_vars

C27_Witness ==
    \E c \in Callers :
        /\ qd[c].pc = "connecting"
        /\ qd[c].attempts = 2
        /\ qd[c].closed # 0
        /\ qd[c].closed \notin openPools
        /\ pool = 0

\* C28: an error event of the pool the shared handle names sets the handle
\* to null, and an error event of a pool the handle no longer names leaves
\* the handle as it is
C28_ErrorOfReplacedPoolIgnored ==
    [][\A p \in openPools :
          PoolErrorEvent(p) => /\ p = pool => pool' = 0
                               /\ (p # pool /\ pool # 0) => pool' = pool]_vars

\* the positions of the query text where a placeholder starts: an at sign
\* followed by a word character
PlaceholderStarts(query) ==
    {i \in 1..(Len(query) - 1) : query[i] = "@" /\ IsWordChar(query[i + 1])}

\* the k-th of them in text order
NthStart(query, k) ==
    CHOOSE i \in PlaceholderStarts(query) :
        Cardinality({j \in PlaceholderStarts(query) : j <= i}) = k

\* the name of the placeholder that starts at i: the word characters after
\* the at sign up to the first character that is not one
NameAt(query, i) ==
    LET e == CHOOSE e \in (i + 1)..Len(query) :
                 /\ \A j \in (i + 1)..e : IsWordChar(query[j])
                 /\ e = Len(query) \/ ~IsWordChar(query[e + 1])
    IN  SubSeq(query, i + 1, e)

\* C29: with p placeholder occurrences in the query text and q values,
\* exactly min(p, q) bindings are made, the i-th one giving the i-th value
\* to the name of the i-th occurrence in text order; with q = 0 none is made
C29_PositionalBinding ==
    req.done =>
        LET p == Cardinality(PlaceholderStarts(req.query))
            q == Len(req.params)
        IN  /\ Len(req.inputs) = Min(p, q)
            /\ \A i \in 1..Len(req.inputs) :
                  req.inputs[i] = [name |-> NameAt(req.query, NthStart(req.query, i)),
                                   value |-> req.params[i]]
            /\ q = 0 => req.inputs = <<>>

C29_Witness ==
    /\ req.done
    /\ Cardinality(PlaceholderStarts(req.query)) = 2
    /\ Len(req.params) = 2
    /\ Len(req.inputs) = 2
    /\ req.inputs[1].name = req.inputs[2].name
    /\ req.inputs[1].value # req.inputs[2].value

\* C30: in processNaturalLanguageQuery a turn is recorded exactly in the
\* step where the awaited queryDatabase call is taken as returned, which
\* is after the execution and before the summarization starts; the turn
\* is the executed statement's; no other step of the primary path (a
\* failed translation, a failed execution, the attempts of the data
\* access layer, a summarization that fails or succeeds) changes the store
C30_TurnRecordedIffExecuted ==
    [][LET recorded == inserted' # inserted
           settles == pq.pc = "exec" /\ pq'.pc # "exec"
       IN  /\ settles =>
                 /\ recorded <=> qd["rag"].pc = "returned"
                 /\ recorded =>
                       /\ pq'.pc = "format"
                       /\ Len(inserted') = Len(inserted) + 1
                       /\ LastOf(inserted', 1)[1].query = pq.sql
                       /\ LastOf(inserted', 1)[1].naturalLanguageQuery = pq.query
                       /\ LastOf(conversationContext', 1) = LastOf(inserted', 1)
           /\ (pq.pc \in {"idle", "nlToSql", "exec", "format", "done"} /\ ~settles) =>
                 /\ ~recorded
                 /\ conversationContext' = conversationContext]_vars

C30_Witness ==
    /\ pq.pc = "done"
    /\ pq.entry = "processQuery"
    /\ pq.failedStep = "format"
    /\ Len(inserted) = 1
    /\ Len(conversationContext) = 1
    /\ conversationContext[1].query = pq.sql

C32_ShutdownOnceAndExit ==
    /\ [][proc'.signals = proc.signals + 1 =>
             IF proc.shuttingDown
             THEN /\ sock' = sock
                  /\ proc'.server = proc.server
                  /\ proc'.forceTimer = proc.forceTimer
                  /\ proc'.shuttingDown
             ELSE /\ \A k \in Sessions :
                        IF sock[k].readyState = "open"
                        THEN sock'[k].readyState = "closing" /\ sock'[k].code = 1001
                        ELSE sock'[k] = sock[k]
                  /\ proc'.server = "closing"
                  /\ proc'.forceTimer
                  /\ proc'.shuttingDown]_vars
    /\ [][(proc'.status = "exited" /\ proc'.code = 1) => (proc.status = "exited" \/ proc.forceTimer)]_vars
    /\ (proc.signals > 0) ~> (proc.status = "exited")

C32_Witness ==
    /\ proc.status = "exited"
    /\ proc.code = 1
    /\ proc.signals = 2
    /\ \E k \in Sessions : sock[k].readyState = "closing" /\ sock[k].code = 1001

\* the activations that are between setting the flag and the finally block
InFlight == {k \in Sessions : loop[k].pc \in {"processQuery", "context"}}

\* C33: the flag is set exactly while one activation is processing an
\* utterance; the step in which that activation finishes, whatever the
\* outcome, leaves it false; a non-empty utterance taken while it is false
\* is processed; and a set flag is eventually cleared
C33_FlagReleased ==
    /\ [](inQueryProcessing <=> InFlight # {})
    /\ [][\A k \in Sessions :
             (k \in InFlight /\ loop'[k].pc \notin {"processQuery", "context"})
                 => ~inQueryProcessing']_vars
    /\ [][\A s \in Sessions :
             (/\ aiQueue[s] # <<>>
              /\ aiQueue'[s] = Tail(aiQueue[s])
              /\ Head(aiQueue[s]).type = "conversation.item.input_audio_transcription.completed"
              /\ Head(aiQueue[s]).transcript # <<>>
              /\ ~inQueryProcessing)
                 => \E k \in Sessions : loop[k].pc = "waiting" /\ loop'[k].pc = "processQuery"]_vars
    /\ inQueryProcessing ~> ~inQueryProcessing

C33_Witness ==
    /\ \E s \in Sessions : \E p \in 1..Len(aiSent[s]) : aiSent[s][p] = "system"
    /\ \E k \in Sessions : loop[k].pc = "processQuery"
    /\ Cardinality(InFlight) = 1
    /\ inQueryProcessing

\* C34: once a media socket is closed, the ping interval started for it is
\* eventually cleared
C34_PingTimerCancelled ==
    \A k \in Sessions : (sock[k].readyState = "closed") ~> ~conn[k].ping

====
